---- MODULE Spec2Model ----
(***************************************************************************)
(* GoHRec, the HTTP request recorder (frxyt/gohrec).                       *)
(*                                                                         *)
(* A Go string is modelled as a sequence of atoms (short TLA+ strings that *)
(* stand for one or several bytes); "" is the empty sequence << >>.        *)
(* A compiled regular expression is modelled by the literal it matches     *)
(* (a non-anchored pattern made of ordinary characters).                   *)
(***************************************************************************)
EXTENDS Integers, Sequences, FiniteSets, TLC

\* ------------------------------------------------------------------------
\* Bounds of the model
\* ------------------------------------------------------------------------
\* longest body a client or the upstream transmits
MaxBodyLen == 2
\* largest value rand.Uint32() returns
MaxSalt == 1
\* latest instant (in nanoseconds since the epoch) time.Now() returns
MaxClock == 1
\* most values given to one --redact-* flag
MaxRules == 2
\* most values one name of a header map holds
MaxValues == 2

\* the transactions (inbound connections) the server handles
Tx == {1}

\* ------------------------------------------------------------------------
\* Strings
\* ------------------------------------------------------------------------
EmptyString == << >>

\* the atoms of header lines, in the order of their bytes (sort.Strings)
AtomOrder ==
    << " ", " http://", "**REDACTED**", "/", "0", "1", "2", "3", "4", "5", "6", "7", "8",
       "9", ": ", "=", "?", "Authorization", "Connection", "Content-Type", "GET",
       "X-Gohrec-Request-Id", "X-Gohrec-Request-Received", "X-Gohrec-Response-Id",
       "[", "] ", "a", "b", "c", "f", "h", "q", "x", "y", "z" >>

OrdTable ==
    [a \in {AtomOrder[i] : i \in 1..Len(AtomOrder)} |->
        CHOOSE i \in 1..Len(AtomOrder) : AtomOrder[i] = a]

Ord(a) == OrdTable[a]

\* a < b for Go strings: byte-wise lexicographic order
RECURSIVE StringLess(_, _)
StringLess(a, b) ==
    IF b = << >> THEN FALSE
    ELSE IF a = << >> THEN TRUE
    ELSE IF Head(a) = Head(b) THEN StringLess(Tail(a), Tail(b))
    ELSE Ord(Head(a)) < Ord(Head(b))

\* strings.LastIndex(s, sep) for a one-atom separator, 0 when absent
\* (positions are 1-based here, so Go's -1 is 0)
LastIndex(s, sep) ==
    IF \E i \in 1..Len(s) : s[i] = sep
    THEN CHOOSE i \in 1..Len(s) : s[i] = sep /\ \A j \in (i + 1)..Len(s) : s[j] # sep
    ELSE 0

Digits == << "0", "1", "2", "3", "4", "5", "6", "7", "8", "9" >>

IsDigit(a) == a \in {Digits[i] : i \in 1..10}

DigitValue(a) == Ord(a) - Ord("0")

\* strconv.FormatInt(n, 10) for n >= 0
RECURSIVE FormatInt(_)
FormatInt(n) ==
    IF n < 10 THEN << Digits[n + 1] >>
    ELSE Append(FormatInt(n \div 10), Digits[(n % 10) + 1])

\* strconv.ParseInt(s, 10, 64) for unsigned decimal text: [ok, value]
RECURSIVE ParseDigits(_, _)
ParseDigits(s, acc) ==
    IF s = << >> THEN acc
    ELSE ParseDigits(Tail(s), acc * 10 + DigitValue(Head(s)))

ParseInt(s) ==
    IF s # << >> /\ \A i \in 1..Len(s) : IsDigit(s[i])
    THEN [ok |-> TRUE, value |-> ParseDigits(s, 0)]
    ELSE [ok |-> FALSE, value |-> 0]

\* fmt.Sprintf("%0wd", n)
RECURSIVE ZeroPad(_, _)
ZeroPad(s, w) == IF Len(s) >= w THEN s ELSE ZeroPad(<< "0" >> \o s, w)

\* io.LimitReader(r, n) followed by ioutil.ReadAll: the first n bytes of what
\* the reader still holds
LimitRead(stream, n) == SubSeq(stream, 1, IF n < Len(stream) THEN n ELSE Len(stream))

\* ------------------------------------------------------------------------
\* Regular expressions (literal patterns)
\* ------------------------------------------------------------------------
\* regexp.MatchString: the pattern occurs somewhere in the text
MatchString(re, text) ==
    \E i \in 1..(Len(text) - Len(re) + 1) : SubSeq(text, i, i + Len(re) - 1) = re

MatchesAt(re, text, i) ==
    /\ i + Len(re) - 1 <= Len(text)
    /\ SubSeq(text, i, i + Len(re) - 1) = re

\* regexp.ReplaceAllString: leftmost non-overlapping matches are replaced
RECURSIVE ReplaceFrom(_, _, _, _)
ReplaceFrom(re, repl, text, i) ==
    IF i > Len(text) THEN << >>
    ELSE IF MatchesAt(re, text, i)
         THEN repl \o ReplaceFrom(re, repl, text, i + Len(re))
         ELSE << text[i] >> \o ReplaceFrom(re, repl, text, i + 1)

\* the empty pattern matches before every byte and at the end of the text
RECURSIVE ReplaceEmpty(_, _)
ReplaceEmpty(repl, text) ==
    IF text = << >> THEN repl
    ELSE repl \o << Head(text) >> \o ReplaceEmpty(repl, Tail(text))

ReplaceAllString(re, text, repl) ==
    IF re = << >> THEN ReplaceEmpty(repl, text) ELSE ReplaceFrom(re, repl, text, 1)

\* ------------------------------------------------------------------------
\* Redaction rules
\* ------------------------------------------------------------------------
redactedString == << "**REDACTED**" >>

\* redactFlag.Redact
RedactFlagRedact(rf, text) == ReplaceAllString(rf.regex, text, rf.replace)

\* arrayRedactFlag.Redact with the rules taken last to first
RECURSIVE ArrayRedactFlagRedactReversed(_, _)
ArrayRedactFlagRedactReversed(arf, text) ==
    IF arf = << >> THEN text
    ELSE RedactFlagRedact(Head(arf), ArrayRedactFlagRedactReversed(Tail(arf), text))

\* arrayRedactFlag.Redact: every rule in turn, each on the output of the last
RECURSIVE ArrayRedactFlagRedact(_, _)
ArrayRedactFlagRedact(arf, text) ==
    IF arf = << >> THEN text
    ELSE ArrayRedactFlagRedact(Tail(arf), RedactFlagRedact(Head(arf), text))

\* regexp.Compile: of the patterns used here only an unclosed "[" is refused
Compiles(pattern) == \A i \in 1..Len(pattern) : pattern[i] # "["

\* a redactFlag.Set that cuts the value at its first "/"
redactFlagSetAtFirstSlash(value) ==
    LET index == IF \E i \in 1..Len(value) : value[i] = "/"
                 THEN CHOOSE i \in 1..Len(value) :
                        value[i] = "/" /\ \A j \in 1..(i - 1) : value[j] # "/"
                 ELSE 0
        pattern == IF index > 0 THEN SubSeq(value, 1, index - 1) ELSE value
        replace == IF index > 0 THEN SubSeq(value, index + 1, Len(value))
                   ELSE redactedString
    IN  [ err |-> ~Compiles(pattern),
          item |-> [regex |-> pattern, replace |-> replace] ]

\* redactFlag.Set: the value is cut at its last "/" into pattern and
\* replacement; without a "/" the replacement is redactedString
redactFlagSet(value) ==
    LET index == LastIndex(value, "/")
        pattern == IF index > 0 THEN SubSeq(value, 1, index - 1) ELSE value
        replace == IF index > 0 THEN SubSeq(value, index + 1, Len(value))
                   ELSE redactedString
    IN  [ err |-> ~Compiles(pattern),
          item |-> [regex |-> pattern, replace |-> replace] ]

\* ------------------------------------------------------------------------
\* http.Header: a map from a name to the list of its values
\* ------------------------------------------------------------------------
NoHeader == [n \in {} |-> << >>]

\* a Header.Add that leaves the map as it is
HeaderAddDropped(h, k, v) == h

HeaderAdd(h, k, v) ==
    [n \in DOMAIN h \cup {k} |->
        IF n = k THEN (IF k \in DOMAIN h THEN Append(h[k], v) ELSE << v >>) ELSE h[n]]

\* the first value of the name, "" when there is none
HeaderGet(h, k) ==
    IF k \in DOMAIN h /\ h[k] # << >> THEN h[k][1] ELSE EmptyString

HeaderDel(h, ks) == [n \in DOMAIN h \ ks |-> h[n]]

\* ------------------------------------------------------------------------
\* dumpValues
\* ------------------------------------------------------------------------
\* sort.Strings, as an insertion into an already sorted list
RECURSIVE SortedInsert(_, _)
SortedInsert(line, sorted) ==
    IF sorted = << >> THEN << line >>
    ELSE IF StringLess(Head(sorted), line)
         THEN << Head(sorted) >> \o SortedInsert(line, Tail(sorted))
         ELSE << line >> \o sorted

RECURSIVE DumpOccurrences(_, _)
DumpOccurrences(in, occ) ==
    IF occ = {} THEN << >>
    ELSE LET o == CHOOSE p \in occ : TRUE
         IN  SortedInsert(<< o[1], ": " >> \o in[o[1]][o[2]],
                          DumpOccurrences(in, occ \ {o}))

\* a dumpValues that writes one line per name, for its first value
dumpValuesFirstOnly(in) ==
    DumpOccurrences(in, {<< n, 1 >> : n \in {m \in DOMAIN in : in[m] # << >>}})

dumpValues(in) ==
    DumpOccurrences(in, UNION {{<< n, i >> : i \in 1..Len(in[n])} : n \in DOMAIN in})

\* ------------------------------------------------------------------------
\* Identity, description and file name
\* ------------------------------------------------------------------------
\* time.Second in nanoseconds
NanosPerSecond == 1000000000

\* md5.Sum: a fingerprint of the description, here one decimal digit
RECURSIVE WeightedSum(_, _)
WeightedSum(s, i) ==
    IF s = << >> THEN 0 ELSE Ord(Head(s)) * i + WeightedSum(Tail(s), i + 1)

Md5Sum(s) == WeightedSum(s, 1) % 10

\* an identity built without the random salt
makeRequestIDUnsalted(req, received, salt) ==
    ZeroPad(FormatInt(received), 2) \o FormatInt(Md5Sum(req))

\* makeRequestID: the fixed-width encoding of the arrival instant, the random
\* salt (rand.Uint32(), passed in) and the fingerprint of the description
makeRequestID(req, received, salt) ==
    ZeroPad(FormatInt(received), 2) \o ZeroPad(FormatInt(salt), 1)
        \o FormatInt(Md5Sum(req))

\* makeRequestName: "[RemoteAddr] Method http://Host RequestURI"
makeRequestName(r) ==
    << "[" >> \o r.RemoteAddr \o << "] " >> \o r.Method \o << " http://" >>
        \o r.Host \o r.RequestURI

\* time.Time.Format: the layout's date and clock atoms are rendered, the
\* other atoms are copied
RECURSIVE Format(_, _)
Format(received, layout) ==
    IF layout = << >> THEN << >>
    ELSE (IF Head(layout) = "15-04-05"
          THEN << "00-00-" >> \o ZeroPad(FormatInt((received \div NanosPerSecond) % 60), 2)
          ELSE IF Head(layout) = "2006-01-02" THEN << "1970-01-01" >>
          ELSE << Head(layout) >>)
         \o Format(received, Tail(layout))

\* time.Time.Nanosecond
Nanosecond(received) == received % NanosPerSecond

\* saveJSON, lines 184-188: the directory handed to os.MkdirAll
DirectoryOf(filebase) ==
    IF LastIndex(filebase, "/") > 0
    THEN SubSeq(filebase, 1, LastIndex(filebase, "/") - 1)
    ELSE filebase

\* a file name without the kind of the record
FileNameUntagged(dateFormat, received, id, suffix) ==
    Format(received, dateFormat) \o ZeroPad(FormatInt(Nanosecond(received)), 9)
        \o << "." >> \o id \o << ".json" >>

\* saveJSON, line 193: "%s%09d.%s.%s.json"
FileName(dateFormat, received, id, suffix) ==
    Format(received, dateFormat) \o ZeroPad(FormatInt(Nanosecond(received)), 9)
        \o << "." >> \o id \o << "." >> \o suffix \o << ".json" >>

\* an index line cut short after the identity
IndexLineTorn(id, filename, req) == id \o << "\t" >>

\* the line ghr.indexLogger.Printf writes: "%s\t%s\t%s"
IndexLine(id, filename, req) == id \o << "\t" >> \o filename \o << "\t" >> \o req

\* ------------------------------------------------------------------------
\* Configuration (the goHRec value built by record() from the flags)
\* ------------------------------------------------------------------------
\* --date-format, default "2006-01-02/15-04-05_"
DefaultDateFormat == << "2006-01-02", "/", "15-04-05", "_" >>

HeaderRule == redactFlagSet(<< "x" >>).item
BodyRuleX == redactFlagSet(<< "x", "/", "y", "x" >>).item
BodyRuleY == redactFlagSet(<< "y", "/", "z" >>).item

\* a nil *regexp.Regexp (the flag left "") and a nil rule list are << >>
Configs ==
    { c \in [ proxy : BOOLEAN,
              onlyPath : {<< >>, << "a" >>},
              exceptPath : {<< >>, << "b" >>},
              maxBodySize : {-1, MaxBodyLen - 1},
              redactHeaders : {<< >>, << HeaderRule >>},
              redactBody : {<< >>, << BodyRuleX, BodyRuleY >>},
              echo : BOOLEAN,
              index : BOOLEAN,
              dateFormat : {DefaultDateFormat} ] :
        \* --echo is read by the direct handler only; the two rule lists are
        \* configured together
        /\ c.proxy => ~c.echo
        /\ (c.redactHeaders = << >>) <=> (c.redactBody = << >>) }

\* the configuration when no flag is given
DefaultConfig ==
    [ proxy |-> FALSE, onlyPath |-> << >>, exceptPath |-> << >>, maxBodySize |-> -1,
      redactHeaders |-> << >>, redactBody |-> << >>, echo |-> FALSE, index |-> FALSE,
      dateFormat |-> DefaultDateFormat ]

\* ------------------------------------------------------------------------
\* Inbound requests and upstream responses
\* ------------------------------------------------------------------------
BodyText(first, second, k) == [i \in 1..k |-> IF i % 2 = 1 THEN first ELSE second]

Bodies == {BodyText("x", "y", k) : k \in 0..MaxBodyLen}

PlainHeader == "Authorization" :> << << "x" >> >>

InboundHeaders ==
    { PlainHeader,
      \* the client sends a correlation header of its own
      PlainHeader @@ ("X-Gohrec-Request-Id" :> << << "f" >> >>),
      \* the client names the correlation header as hop-by-hop
      PlainHeader @@ ("Connection" :> << << "X-Gohrec-Request-Id" >> >>) }

Requests ==
    [ RemoteAddr : {<< "c" >>}, Method : {<< "GET" >>}, Host : {<< "h" >>},
      Proto : {<< "HTTP/1.1" >>},
      Path : {<< "/", "a" >>, << "/", "b" >>, << "/", "a", "b" >>},
      Query : {NoHeader},
      Header : InboundHeaders,
      Trailer : {NoHeader},
      Body : Bodies ]

\* the query string of the request target, "" or "?name=value" (a request
\* carries at most one parameter here)
RawQuery(query) ==
    IF DOMAIN query = {} THEN << >>
    ELSE LET n == CHOOSE m \in DOMAIN query : TRUE
         IN  << "?", n, "=" >> \o query[n][1]

\* the *http.Request net/http hands to the handler for an inbound request
HttpRequest(in) ==
    [ RemoteAddr |-> in.RemoteAddr, Method |-> in.Method, Host |-> in.Host,
      Proto |-> in.Proto, RequestURI |-> in.Path \o RawQuery(in.Query), Path |-> in.Path,
      Query |-> in.Query, Header |-> in.Header, Trailer |-> in.Trailer,
      ContentLength |-> Len(in.Body) ]

Responses ==
    [ Status : {200}, Proto : {<< "HTTP/1.1" >>},
      Header : {"Content-Type" :> << << "x" >> >>},
      Trailer : {NoHeader},
      Body : {BodyText("y", "x", MaxBodyLen)} ]

\* the outcomes of the file system and of the serializer for one record
IOOutcomes == {"ok", "marshalFails", "mkdirFails", "writeFails", "indexFails"}

\* ------------------------------------------------------------------------
\* State
\* ------------------------------------------------------------------------
VARIABLES
    cfg,        \* the goHRec configuration
    now,        \* the last instant time.Now() returned
    files,      \* the record files on disk: file name -> serialized record
    dirs,       \* the directories os.MkdirAll created
    indexLog,   \* the lines of index.log
    tx,         \* per transaction: position, request, locals, client's view
    flags,      \* a --redact-* rule list from flag parsing to its use
    env,        \* the environment: the requests clients send, the outcomes
                \* the file system and the serializer can produce
    call        \* two calls of makeRequestID or of saveJSON's path computation

vars == << cfg, now, files, dirs, indexLog, tx, flags, env, call >>

NoFile == [f \in {} |-> << >>]

NoRecord == [ID |-> EmptyString]

NoCall == [op |-> "none", a |-> << >>, b |-> << >>]

NoFlags ==
    [phase |-> "flags", value |-> << >>, arf |-> << >>, text |-> << >>, out |-> << >>]

IdleTx ==
    [ pc |-> "idle",
      in |-> << >>,           \* the request as the client sent it
      req |-> << >>,          \* makeRequestName(r)
      r |-> << >>,            \* the *http.Request (Header is mutable)
      stream |-> << >>,       \* what r.Body still yields
      received |-> 0,         \* rt.requestReceived
      record |-> NoRecord,    \* the request record being assembled
      body |-> << >>,         \* proxyHandler's body buffer
      hook |-> FALSE,         \* proxy.ModifyResponse is set
      outreq |-> << >>,       \* the request the transport sent upstream
      resp |-> << >>,         \* the response as the upstream sent it
      res |-> << >>,          \* the *http.Response handed to the hook
      resStream |-> << >>,    \* what res.Body still yields
      hookReceived |-> 0,     \* the hook's rt.requestReceived
      hookRecord |-> NoRecord,\* the response record being assembled
      hookBody |-> << >>,     \* the hook's body buffer
      client |-> << >>,       \* what the client was answered
      minted |-> << >>,       \* the identities makeRequestID returned
      saved |-> << >> ]       \* the persistence attempts: kind, id, file, error

Init ==
    /\ cfg \in Configs
    /\ now = 0
    /\ files = NoFile
    /\ dirs = {}
    /\ indexLog = << >>
    /\ tx = [t \in Tx |-> IdleTx]
    /\ flags = NoFlags
    /\ env = [requests |-> Requests, outcomes |-> IOOutcomes]
    /\ call = NoCall

\* ------------------------------------------------------------------------
\* Filters, record assembly, redaction, storage
\* ------------------------------------------------------------------------
\* a recorder that never applies --only-path
isNotWhitelistedNever(ghr, r) == FALSE

isNotWhitelisted(ghr, r) ==
    ghr.onlyPath # << >> /\ ~MatchString(ghr.onlyPath, r.Path)

\* a recorder that never applies --except-path
isBlacklistedNever(ghr, r) == FALSE

isBlacklisted(ghr, r) ==
    ghr.exceptPath # << >> /\ MatchString(ghr.exceptPath, r.Path)

prepareRequestRecord(r, received) ==
    [ ID |-> EmptyString,
      Date |-> received, DateUTC |-> received, DateUnixNano |-> received,
      Protocol |-> r.Proto,
      Headers |-> dumpValues(r.Header),
      ContentLength |-> r.ContentLength,
      Body |-> EmptyString,
      Trailers |-> dumpValues(r.Trailer),
      TransferEncodings |-> << >>,
      RemoteAddr |-> r.RemoteAddr, Host |-> r.Host, Method |-> r.Method,
      Path |-> r.Path, Query |-> dumpValues(r.Query), URI |-> r.RequestURI ]

\* a recorder that leaves the body of a record as captured
redactRecordHeadersOnly(ghr, record) ==
    [ record EXCEPT
        !.Headers = [i \in 1..Len(@) |-> ArrayRedactFlagRedact(ghr.redactHeaders, @[i])] ]

\* a recorder that applies the size bound to the body after the body rules
redactRecordThenBound(ghr, record) ==
    [ record EXCEPT
        !.Headers = [i \in 1..Len(@) |-> ArrayRedactFlagRedact(ghr.redactHeaders, @[i])],
        !.Trailers = [i \in 1..Len(@) |-> ArrayRedactFlagRedact(ghr.redactHeaders, @[i])],
        !.Body = IF ghr.maxBodySize # -1
                 THEN LimitRead(ArrayRedactFlagRedact(ghr.redactBody, @), ghr.maxBodySize)
                 ELSE ArrayRedactFlagRedact(ghr.redactBody, @) ]

\* a recorder that applies the header rules to the request target as well
redactRecordEverywhere(ghr, record) ==
    [ record EXCEPT
        !.Headers = [i \in 1..Len(@) |-> ArrayRedactFlagRedact(ghr.redactHeaders, @[i])],
        !.Trailers = [i \in 1..Len(@) |-> ArrayRedactFlagRedact(ghr.redactHeaders, @[i])],
        !.Body = ArrayRedactFlagRedact(ghr.redactBody, @),
        !.Path = ArrayRedactFlagRedact(ghr.redactHeaders, @),
        !.URI = ArrayRedactFlagRedact(ghr.redactHeaders, @),
        !.Query = [i \in 1..Len(@) |-> ArrayRedactFlagRedact(ghr.redactHeaders, @[i])] ]

\* redactRecord: the header rules on every header and trailer line, the body
\* rules on the body (a nil rule list is skipped)
redactRecord(ghr, record) ==
    [ record EXCEPT
        !.Headers = IF ghr.redactHeaders # << >>
                    THEN [i \in 1..Len(@) |-> ArrayRedactFlagRedact(ghr.redactHeaders, @[i])]
                    ELSE @,
        !.Trailers = IF ghr.redactHeaders # << >>
                     THEN [i \in 1..Len(@) |-> ArrayRedactFlagRedact(ghr.redactHeaders, @[i])]
                     ELSE @,
        !.Body = IF ghr.redactBody # << >>
                 THEN ArrayRedactFlagRedact(ghr.redactBody, @)
                 ELSE @ ]

\* ioutil.WriteFile: the file is created, or replaced when it exists
WriteFile(fs, filename, data) ==
    [f \in DOMAIN fs \cup {filename} |-> IF f = filename THEN data ELSE fs[f]]

\* a saveJSON that goes on to the index after a failed write
saveJSONIndexesAnyway(ghr, disk, json, id, received, suffix, req, io) ==
    LET filepath == DirectoryOf(Format(received, ghr.dateFormat))
        filename == FileName(ghr.dateFormat, received, id, suffix)
        made == [disk EXCEPT !.dirs = @ \cup {filepath}]
        written == IF io = "writeFails" THEN made
                   ELSE [made EXCEPT !.files = WriteFile(@, filename, json)]
    IN  IF io = "mkdirFails"
        THEN [disk |-> disk, filename |-> filepath, err |-> TRUE]
        ELSE [ disk |-> IF ghr.index /\ io # "indexFails"
                        THEN [written EXCEPT
                                !.indexLog = Append(@, IndexLine(id, filename, req))]
                        ELSE written,
               filename |-> filename, err |-> io = "writeFails" ]

\* saveJSON, lines 189-204, once filepath and filename are computed:
\* os.MkdirAll, ioutil.WriteFile and the index line
saveJSONFile(ghr, disk, json, id, filepath, filename, req, io) ==
    LET made == [disk EXCEPT !.dirs = @ \cup {filepath}]
        written == [made EXCEPT !.files = WriteFile(@, filename, json)]
    IN  IF io = "mkdirFails"
        THEN [disk |-> disk, filename |-> filepath, err |-> TRUE]
        ELSE IF io = "writeFails"
        THEN [disk |-> made, filename |-> filename, err |-> TRUE]
        ELSE [ disk |-> IF ghr.index /\ io # "indexFails"
                        THEN [written EXCEPT
                                !.indexLog = Append(@, IndexLine(id, filename, req))]
                        ELSE written,
               filename |-> filename, err |-> FALSE ]

\* saveJSON on the disk [files, dirs, indexLog]: the disk it leaves, with the
\* (string, error) it returns
saveJSON(ghr, disk, json, id, received, suffix, req, io) ==
    saveJSONFile(ghr, disk, json, id, DirectoryOf(Format(received, ghr.dateFormat)),
                 FileName(ghr.dateFormat, received, id, suffix), req, io)

Disk == [files |-> files, dirs |-> dirs, indexLog |-> indexLog]

SetDisk(disk) ==
    /\ files' = disk.files
    /\ dirs' = disk.dirs
    /\ indexLog' = disk.indexLog

\* rand.Uint32() is drawn only when an identity is minted
Salts(mint) == IF mint THEN 0..MaxSalt ELSE {0}

\* the index append can fail only when --index opened index.log
Outcomes(ghr) == IF ghr.index THEN env.outcomes ELSE env.outcomes \ {"indexFails"}

\* one persistence attempt of a transaction: the record kind, the identity,
\* the path of the record file, whether the attempt failed and whether
\* index.log took its line
Attempt(kind, id, received, err, io) ==
    [ kind |-> kind, id |-> id,
      file |-> FileName(cfg.dateFormat, received, id, << kind >>),
      err |-> err,
      indexed |-> ~err /\ cfg.index /\ io # "indexFails" ]

\* time.Now(): the clock never runs backwards
TimeNow(n) == n >= now /\ n <= MaxClock /\ now' = n

\* ------------------------------------------------------------------------
\* Direct mode
\* ------------------------------------------------------------------------
\* handler, lines 285-286 and 291-292: the answer to a filtered request
Skipped(text) == [StatusCode |-> 200, Echo |-> << >>, Text |-> << text >>]

\* a handler that answers 200 to a recorded request
RecordedOK(ghr, record) ==
    [ StatusCode |-> 200,
      Echo |-> IF ghr.echo THEN << record >> ELSE << >>,
      Text |-> << "Recorded." >> ]

\* a handler that echoes the record as it will be persisted, redacted
RecordedRedacted(ghr, record) ==
    [ StatusCode |-> 201,
      Echo |-> IF ghr.echo THEN << redactRecord(ghr, record) >> ELSE << >>,
      Text |-> << "Recorded." >> ]

\* handler, lines 309-315: the answer to a recorded request
Recorded(ghr, record) ==
    [ StatusCode |-> 201,
      Echo |-> IF ghr.echo THEN << record >> ELSE << >>,
      Text |-> << "Recorded." >> ]

\* a handler that reads the body without the size limit
handlerBodyUnlimited(ghr, stream) == stream

\* handler, lines 298-307: the body read through the size limit
handlerBody(ghr, stream) ==
    IF ghr.maxBodySize # -1 THEN LimitRead(stream, ghr.maxBodySize) ELSE stream

handler(t) ==
    /\ ~cfg.proxy
    /\ tx[t].pc = "idle"
    /\ \E in \in env.requests, n \in 0..MaxClock :
        LET r == HttpRequest(in)
            req == makeRequestName(r)
            body == handlerBody(cfg, in.Body)
            record == [prepareRequestRecord(r, n) EXCEPT !.Body = body]
            arrived == [tx[t] EXCEPT !.in = in, !.r = r, !.req = req, !.received = n]
        IN  /\ TimeNow(n)
            /\ IF isNotWhitelisted(cfg, r)
               THEN tx' = [tx EXCEPT ![t] =
                        [arrived EXCEPT !.pc = "done", !.stream = in.Body,
                                        !.client = Skipped("Skipped: not whitelisted.")]]
               ELSE IF isBlacklisted(cfg, r)
               THEN tx' = [tx EXCEPT ![t] =
                        [arrived EXCEPT !.pc = "done", !.stream = in.Body,
                                        !.client = Skipped("Skipped: blacklisted.")]]
               ELSE tx' = [tx EXCEPT ![t] =
                        [arrived EXCEPT
                            !.pc = "saveRequest",
                            !.stream = SubSeq(in.Body, Len(body) + 1, Len(in.Body)),
                            !.body = body,
                            !.record = record,
                            !.client = Recorded(cfg, record)]]
    /\ UNCHANGED << call, env, flags, cfg, files, dirs, indexLog >>

\* saveRequest, the call deferred by handler and by proxyHandler
saveRequest(t) ==
    /\ tx[t].pc = "saveRequest"
    /\ \E salt \in Salts(tx[t].record.ID = EmptyString), io \in Outcomes(cfg) :
       \E redacted \in {redactRecord(cfg, tx[t].record)} :
       \E id \in {IF redacted.ID = EmptyString
                  THEN makeRequestID(tx[t].req, tx[t].received, salt)
                  ELSE redacted.ID} :
       \E out \in {saveJSON(cfg, Disk, [redacted EXCEPT !.ID = id], id, tx[t].received,
                            << "request" >>, tx[t].req, io)} :
        LET mint == redacted.ID = EmptyString
            minted == IF mint THEN Append(tx[t].minted, id) ELSE tx[t].minted
        IN  IF io = "marshalFails"
            THEN /\ tx' = [tx EXCEPT ![t].pc = "done", ![t].minted = minted,
                               ![t].saved = Append(@, Attempt("request", id, tx[t].received, TRUE, io))]
                 /\ UNCHANGED << files, dirs, indexLog >>
            ELSE /\ tx' = [tx EXCEPT ![t].pc = "done", ![t].minted = minted,
                               ![t].saved = Append(@, Attempt("request", id, tx[t].received, out.err, io))]
                 /\ SetDisk(out.disk)
    /\ UNCHANGED << call, env, flags, cfg, now >>

\* ------------------------------------------------------------------------
\* Proxy mode
\* ------------------------------------------------------------------------
\* a proxy handler that forwards the body through the size limit
proxyHandlerForwardBodyLimited(ghr, body) == handlerBody(ghr, body)

\* proxyHandler, line 428: what r.Body yields to the transport, a reader over
\* the whole buffer
proxyHandlerForwardBody(ghr, body) == body

\* proxyHandler, lines 402-432: up to the call of proxy.ServeHTTP
proxyHandler(t) ==
    /\ cfg.proxy
    /\ tx[t].pc = "idle"
    /\ \E in \in env.requests, n \in 0..MaxClock, salt \in 0..MaxSalt :
        LET r == HttpRequest(in)
            req == makeRequestName(r)
            reqid == makeRequestID(req, n, salt)
            tagged == [r EXCEPT !.Header =
                         HeaderAdd(HeaderAdd(@, "X-Gohrec-Request-Id", reqid),
                                   "X-Gohrec-Request-Received", FormatInt(n))]
            record == [prepareRequestRecord(tagged, n) EXCEPT !.ID = reqid]
            arrived == [tx[t] EXCEPT !.in = in, !.req = req, !.received = n,
                                     !.pc = "serve"]
        IN  /\ TimeNow(n)
            /\ IF isNotWhitelisted(cfg, r) \/ isBlacklisted(cfg, r)
               THEN tx' = [tx EXCEPT ![t] =
                        [arrived EXCEPT !.r = r, !.stream = in.Body, !.hook = FALSE]]
               ELSE tx' = [tx EXCEPT ![t] =
                        [arrived EXCEPT !.r = tagged, !.record = record,
                                        !.minted = << reqid >>,
                                        !.body = in.Body,
                                        !.stream = proxyHandlerForwardBody(cfg, in.Body),
                                        !.hook = TRUE]]
    /\ UNCHANGED << call, env, flags, cfg, files, dirs, indexLog >>

\* the header names a Connection header lists, one per value
ConnectionListed(h) ==
    IF "Connection" \in DOMAIN h
    THEN {h["Connection"][i][1] : i \in {j \in 1..Len(h["Connection"]) :
                                              h["Connection"][j] # << >>}}
    ELSE {}

\* httputil.ReverseProxy.ServeHTTP up to the response hook: the outbound
\* request is a copy without the hop-by-hop headers; the transport reads the
\* body from r.Body; the upstream answers or cannot be reached
ServeHTTP(t) ==
    /\ tx[t].pc = "serve"
    /\ LET outreq == [ tx[t].r EXCEPT
                         !.Header = HeaderDel(@, {"Connection"} \cup ConnectionListed(@)) ]
           handed == [Request |-> outreq, Body |-> tx[t].stream]
       IN  \/ \E resp \in Responses :
                IF tx[t].hook
                THEN tx' = [tx EXCEPT ![t].pc = "hook", ![t].outreq = handed,
                                      ![t].stream = << >>,
                                      ![t].resp = resp,
                                      ![t].res = [ StatusCode |-> resp.Status,
                                                   Proto |-> resp.Proto,
                                                   Header |-> resp.Header,
                                                   Trailer |-> resp.Trailer,
                                                   ContentLength |-> Len(resp.Body),
                                                   Request |-> outreq ],
                                      ![t].resStream = resp.Body]
                ELSE tx' = [tx EXCEPT ![t].pc = "done", ![t].outreq = handed,
                                      ![t].stream = << >>,
                                      ![t].resp = resp,
                                      ![t].client = [ StatusCode |-> resp.Status,
                                                      Header |-> resp.Header,
                                                      Body |-> resp.Body ]]
           \/ \E k \in 0..Len(tx[t].stream) :
                tx' = [tx EXCEPT ![t].pc = IF tx[t].hook THEN "resume" ELSE "done",
                                 ![t].outreq = handed,
                                 ![t].stream = SubSeq(@, k + 1, Len(@)),
                                 ![t].client = [ StatusCode |-> 502,
                                                 Header |-> NoHeader,
                                                 Body |-> << >> ]]
    /\ UNCHANGED << call, env, flags, cfg, now, files, dirs, indexLog >>

\* a hook that restores the body through the size limit
proxyModifyResponseBodyLimited(ghr, body) == handlerBody(ghr, body)

\* proxyModifyResponse, line 394: what r.Body yields after the hook, a reader
\* over the whole buffer
proxyModifyResponseBody(ghr, body) == body

\* proxyModifyResponse, lines 349-396: up to the deferred saveResponse
proxyModifyResponse(t) ==
    /\ tx[t].pc = "hook"
    /\ \E n \in now..MaxClock,
          salt \in Salts(HeaderGet(tx[t].res.Request.Header, "X-Gohrec-Request-Id")
                           = EmptyString) :
        LET r == tx[t].res
            req == makeRequestName(r.Request)
            reqRecHeader == HeaderGet(r.Request.Header, "X-Gohrec-Request-Received")
            reqRec == ParseInt(reqRecHeader)
            requestReceived == IF reqRecHeader # EmptyString /\ reqRec.ok
                               THEN reqRec.value ELSE n
            found == HeaderGet(r.Request.Header, "X-Gohrec-Request-Id")
            reqid == IF found = EmptyString
                     THEN makeRequestID(req, requestReceived, salt) ELSE found
            header == HeaderAdd(r.Header, "X-Gohrec-Response-Id", reqid)
            record == [ ID |-> reqid,
                        Date |-> n, DateUTC |-> n, DateUnixNano |-> n,
                        Protocol |-> r.Proto,
                        Headers |-> dumpValues(header),
                        ContentLength |-> r.ContentLength,
                        Body |-> EmptyString,
                        Trailers |-> dumpValues(r.Trailer),
                        TransferEncodings |-> << >>,
                        Compressed |-> TRUE,
                        StatusCode |-> r.StatusCode ]
            body == tx[t].resStream
        IN  /\ TimeNow(n)
            /\ tx' = [tx EXCEPT ![t].pc = "saveResponse",
                                ![t].res = [r EXCEPT !.Header = header],
                                ![t].hookReceived = requestReceived,
                                ![t].hookRecord = record,
                                ![t].resStream = proxyModifyResponseBody(cfg, body),
                                ![t].hookBody = body,
                                ![t].minted = IF found = EmptyString
                                              THEN Append(@, reqid) ELSE @]
    /\ UNCHANGED << call, env, flags, cfg, files, dirs, indexLog >>

\* saveResponse, lines 321-331: the body read through the size limit
saveResponseBody(ghr, body) ==
    IF ghr.maxBodySize # -1 THEN LimitRead(body, ghr.maxBodySize) ELSE body

\* a hook that returns without having run saveResponse
saveResponseDetached(t) ==
    /\ tx[t].pc = "saveResponse"
    /\ tx' = [tx EXCEPT ![t].pc = "relay"]
    /\ UNCHANGED << call, env, flags, cfg, now, files, dirs, indexLog >>

\* saveResponse, the call deferred by proxyModifyResponse
saveResponse(t) ==
    /\ tx[t].pc = "saveResponse"
    /\ \E salt \in Salts(tx[t].hookRecord.ID = EmptyString), io \in Outcomes(cfg) :
       \E req \in {makeRequestName(tx[t].res.Request)} :
       \E captured \in {[tx[t].hookRecord EXCEPT
                            !.Body = saveResponseBody(cfg, tx[t].hookBody)]} :
       \E redacted \in {redactRecord(cfg, captured)} :
       \E id \in {IF redacted.ID = EmptyString
                  THEN makeRequestID(req, tx[t].hookReceived, salt)
                  ELSE redacted.ID} :
       \E out \in {saveJSON(cfg, Disk, [redacted EXCEPT !.ID = id], id, tx[t].hookReceived,
                            << "response" >>, req, io)} :
        LET mint == redacted.ID = EmptyString
            minted == IF mint THEN Append(tx[t].minted, id) ELSE tx[t].minted
        IN  IF io = "marshalFails"
            THEN /\ tx' = [tx EXCEPT ![t].pc = "relay", ![t].minted = minted,
                               ![t].hookRecord = captured,
                               ![t].saved = Append(@, Attempt("response", id,
                                                              tx[t].hookReceived, TRUE, io))]
                 /\ UNCHANGED << files, dirs, indexLog >>
            ELSE /\ tx' = [tx EXCEPT ![t].pc = "relay", ![t].minted = minted,
                               ![t].hookRecord = captured,
                               ![t].saved = Append(@, Attempt("response", id,
                                                              tx[t].hookReceived, out.err, io))]
                 /\ SetDisk(out.disk)
    /\ UNCHANGED << call, env, flags, cfg, now >>

\* httputil.ReverseProxy.ServeHTTP after the hook: the response is copied to
\* the client and the call returns
CopyResponse(t) ==
    /\ tx[t].pc = "relay"
    /\ tx' = [tx EXCEPT ![t].pc = "resume",
                        ![t].resStream = << >>,
                        ![t].client = [ StatusCode |-> tx[t].res.StatusCode,
                                        Header |-> tx[t].res.Header,
                                        Body |-> tx[t].resStream ]]
    /\ UNCHANGED << call, env, flags, cfg, now, files, dirs, indexLog >>

\* a proxy handler that records its whole buffer
proxyHandlerBodyUnlimited(ghr, stream, body) == body

\* proxyHandler, lines 434-445: the body of the record, read after the
\* forwarding call returned
proxyHandlerBody(ghr, stream, body) ==
    IF ghr.maxBodySize # -1 THEN LimitRead(stream, ghr.maxBodySize) ELSE body

\* a proxy handler that saves the request record only when the hook ran
proxyHandlerResumeAnsweredOnly(t) ==
    /\ tx[t].pc = "resume"
    /\ LET bodyContent == proxyHandlerBody(cfg, tx[t].stream, tx[t].body)
       IN  tx' = [tx EXCEPT ![t].pc = IF tx[t].hookRecord.ID = EmptyString
                                      THEN "done" ELSE "saveRequest",
                            ![t].record = [@ EXCEPT !.Body = bodyContent],
                            ![t].stream = IF cfg.maxBodySize # -1
                                          THEN SubSeq(@, Len(bodyContent) + 1, Len(@))
                                          ELSE @]
    /\ UNCHANGED << call, env, flags, cfg, now, files, dirs, indexLog >>

proxyHandlerResume(t) ==
    /\ tx[t].pc = "resume"
    /\ LET bodyContent == proxyHandlerBody(cfg, tx[t].stream, tx[t].body)
       IN  tx' = [tx EXCEPT ![t].pc = "saveRequest",
                            ![t].record = [@ EXCEPT !.Body = bodyContent],
                            ![t].stream = IF cfg.maxBodySize # -1
                                          THEN SubSeq(@, Len(bodyContent) + 1, Len(@))
                                          ELSE @]
    /\ UNCHANGED << call, env, flags, cfg, now, files, dirs, indexLog >>

Next ==
    \E t \in Tx :
        \/ handler(t)
        \/ saveRequest(t)
        \/ proxyHandler(t)
        \/ ServeHTTP(t)
        \/ proxyModifyResponse(t)
        \/ saveResponse(t)
        \/ CopyResponse(t)
        \/ proxyHandlerResume(t)

Spec == Init /\ [][Next]_vars

\* ------------------------------------------------------------------------
\* Several connections served at once: net/http runs the handler of every
\* inbound request in a goroutine of its own, on the one goHRec value, the
\* one disk and the one index.log
\* ------------------------------------------------------------------------
Connections == {1, 2}

\* --index set, the other flags left at their defaults, either mode
ConfigsMany == { [DefaultConfig EXCEPT !.proxy = p, !.index = TRUE] : p \in BOOLEAN }

\* a request whose client sends both correlation headers itself, and a plain
\* request
RequestsMany ==
    { [ RemoteAddr |-> << "c" >>, Method |-> << "GET" >>, Host |-> << "h" >>,
        Proto |-> << "HTTP/1.1" >>, Path |-> << "/", "a" >>, Query |-> NoHeader,
        Header |-> PlainHeader @@ ("X-Gohrec-Request-Id" :> << << "f" >> >>)
                               @@ ("X-Gohrec-Request-Received" :> << << "0" >> >>),
        Trailer |-> NoHeader, Body |-> BodyText("x", "y", 1) ],
      [ RemoteAddr |-> << "c" >>, Method |-> << "GET" >>, Host |-> << "h" >>,
        Proto |-> << "HTTP/1.1" >>, Path |-> << "/", "b" >>, Query |-> NoHeader,
        Header |-> PlainHeader,
        Trailer |-> NoHeader, Body |-> BodyText("y", "x", 1) ] }

InitMany ==
    /\ cfg \in ConfigsMany
    /\ now = 0
    /\ files = NoFile
    /\ dirs = {}
    /\ indexLog = << >>
    /\ tx = [t \in Connections |-> IdleTx]
    /\ flags = NoFlags
    /\ env = [requests |-> RequestsMany, outcomes |-> {"ok", "writeFails"}]
    /\ call = NoCall

NextMany ==
    \E t \in Connections :
        \/ handler(t)
        \/ saveRequest(t)
        \/ proxyHandler(t)
        \/ ServeHTTP(t)
        \/ proxyModifyResponse(t)
        \/ saveResponse(t)
        \/ CopyResponse(t)
        \/ proxyHandlerResume(t)

SpecMany == InitMany /\ [][NextMany]_vars

\* ------------------------------------------------------------------------
\* Requests whose target holds what the redaction rules look for: the text
\* x in the path and in the query string, with header and body rules and
\* --index configured, in either mode
\* ------------------------------------------------------------------------
ConfigsTarget ==
    { [DefaultConfig EXCEPT !.proxy = p, !.index = TRUE,
                            !.redactHeaders = << HeaderRule >>,
                            !.redactBody = << BodyRuleX, BodyRuleY >>] : p \in BOOLEAN }

RequestsTarget ==
    [ RemoteAddr : {<< "c" >>}, Method : {<< "GET" >>}, Host : {<< "h" >>},
      Proto : {<< "HTTP/1.1" >>},
      Path : {<< "/", "x" >>, << "/", "a" >>},
      Query : {NoHeader, "q" :> << << "x" >> >>},
      Header : {PlainHeader},
      Trailer : {NoHeader},
      Body : Bodies ]

InitTarget ==
    /\ cfg \in ConfigsTarget
    /\ now = 0
    /\ files = NoFile
    /\ dirs = {}
    /\ indexLog = << >>
    /\ tx = [t \in Tx |-> IdleTx]
    /\ flags = NoFlags
    /\ env = [requests |-> RequestsTarget, outcomes |-> {"ok", "writeFails", "indexFails"}]
    /\ call = NoCall

SpecTarget == InitTarget /\ [][Next]_vars

\* ------------------------------------------------------------------------
\* The recorder of src/main.go: one handler, which persists the record
\* before it answers; its log function writes every message to the
\* response as well
\* ------------------------------------------------------------------------
\* --only-path, --except-path, --echo and --index; the date template is the
\* default
ConfigsMain ==
    { [DefaultConfig EXCEPT !.onlyPath = o, !.exceptPath = e, !.echo = ec, !.index = ix] :
        o \in {<< >>, << "a" >>}, e \in {<< >>, << "b" >>},
        ec \in BOOLEAN, ix \in BOOLEAN }

RequestsMain == { in \in Requests : in.Header = PlainHeader }

\* a response of which nothing has been written
NoAnswer == [StatusCode |-> 0, Echo |-> << >>, Text |-> << >>]

\* http.ResponseWriter.WriteHeader: the status is set once, a later call is
\* ignored
WriteHeader(w, code) == IF w.StatusCode = 0 THEN [w EXCEPT !.StatusCode = code] ELSE w

\* http.ResponseWriter.Write: a write before WriteHeader sends status 200
Write(w, text) == [WriteHeader(w, 200) EXCEPT !.Text = Append(@, text)]

\* handler, lines 57-63: log prints the message to the response
Log(w, text) == Write(w, text)

\* handler, line 65: "[Host] Method Path"
mainRequestName(r) ==
    << "[" >> \o r.Host \o << "] " >> \o r.Method \o << " " >> \o r.Path

\* handler, lines 114-116: "%s%09d_%s.json" after the rendered template
mainFileName(dateFormat, date, md5String) ==
    Format(date, dateFormat) \o ZeroPad(FormatInt(Nanosecond(date)), 9)
        \o << "_" >> \o md5String \o << ".json" >>

\* handler, line 133: "index/%s"
mainIndexName(md5String) == << "index", "/" >> \o md5String

InitMain ==
    /\ cfg \in ConfigsMain
    /\ now = 0
    /\ files = NoFile
    /\ dirs = {}
    /\ indexLog = << >>
    /\ tx = [t \in Tx |-> IdleTx]
    /\ flags = NoFlags
    /\ env = [ requests |-> RequestsMain,
               outcomes |-> {"ok", "marshalFails", "mkdirFails", "writeFails"} ]
    /\ call = NoCall

\* handler, lines 54-99: arrival, the filters, the record and its body; the
\* body is read when Content-Length > 0, and the read returns all of it or
\* fails after k bytes
mainHandler(t) ==
    /\ tx[t].pc = "idle"
    /\ \E in \in env.requests, n \in 0..MaxClock, k \in 0..MaxBodyLen :
        LET r == HttpRequest(in)
            req == mainRequestName(r)
            readFails == k < Len(in.Body)
            record == [ Date |-> n, DateUTC |-> n, DateUnixNano |-> n,
                        RemoteAddr |-> r.RemoteAddr, Host |-> r.Host,
                        Method |-> r.Method, Path |-> r.Path, Protocol |-> r.Proto,
                        Query |-> dumpValues(r.Query), URI |-> r.RequestURI,
                        Headers |-> dumpValues(r.Header),
                        ContentLength |-> r.ContentLength,
                        Body |-> SubSeq(in.Body, 1, k) ]
            arrived == [tx[t] EXCEPT !.in = in, !.r = r, !.req = req, !.received = n]
        IN  /\ k <= Len(in.Body)
            /\ TimeNow(n)
            /\ IF cfg.onlyPath # << >> /\ ~MatchString(cfg.onlyPath, r.Path)
               THEN /\ k = Len(in.Body)
                    /\ tx' = [tx EXCEPT ![t] =
                        [arrived EXCEPT
                            !.pc = "done", !.stream = in.Body,
                            !.client = Log(WriteHeader(NoAnswer, 200),
                                           << "Skipped: doesn't match --only-path." >>)]]
               ELSE IF cfg.exceptPath # << >> /\ MatchString(cfg.exceptPath, r.Path)
               THEN /\ k = Len(in.Body)
                    /\ tx' = [tx EXCEPT ![t] =
                        [arrived EXCEPT
                            !.pc = "done", !.stream = in.Body,
                            !.client = Log(WriteHeader(NoAnswer, 200),
                                           << "Skipped: match --except-path." >>)]]
               ELSE tx' = [tx EXCEPT ![t] =
                        [arrived EXCEPT
                            !.pc = "persist",
                            !.stream = SubSeq(in.Body, k + 1, Len(in.Body)),
                            !.body = SubSeq(in.Body, 1, k),
                            !.record = record,
                            !.client = IF readFails
                                       THEN Log(NoAnswer, << "Error while dumping body" >>)
                                       ELSE NoAnswer]]
    /\ UNCHANGED << call, env, flags, cfg, files, dirs, indexLog >>

\* handler, lines 101-127: serialization, os.MkdirAll, ioutil.WriteFile and
\* the answer
mainPersist(t) ==
    /\ tx[t].pc = "persist"
    /\ \E io \in env.outcomes :
       \E filepath \in {Format(tx[t].received, cfg.dateFormat)} :
       \E md5String \in {FormatInt(Md5Sum(tx[t].req))} :
       \E filename \in {mainFileName(cfg.dateFormat, tx[t].received, md5String)} :
        LET w == tx[t].client
            failed(text) == Log(WriteHeader(w, 500), << text >>)
            attempt(err) == [ kind |-> "request", id |-> md5String, file |-> filename,
                              err |-> err, indexed |-> FALSE ]
        IN  IF io = "marshalFails"
            THEN /\ tx' = [tx EXCEPT ![t].pc = "done",
                               ![t].client = failed("Error while serializing record"),
                               ![t].saved = Append(@, attempt(TRUE))]
                 /\ UNCHANGED << files, dirs >>
            ELSE IF io = "mkdirFails"
            THEN /\ tx' = [tx EXCEPT ![t].pc = "done",
                               ![t].client = failed("Error while preparing save"),
                               ![t].saved = Append(@, attempt(TRUE))]
                 /\ UNCHANGED << files, dirs >>
            ELSE IF io = "writeFails"
            THEN /\ tx' = [tx EXCEPT ![t].pc = "done",
                               ![t].client = failed("Error while saving"),
                               ![t].saved = Append(@, attempt(TRUE))]
                 /\ dirs' = dirs \cup {filepath}
                 /\ UNCHANGED files
            ELSE /\ tx' = [tx EXCEPT
                               ![t].pc = IF cfg.index THEN "index" ELSE "done",
                               ![t].client =
                                   Log([WriteHeader(w, 201) EXCEPT
                                            !.Echo = IF cfg.echo THEN << tx[t].record >>
                                                     ELSE << >>],
                                       << "Recorded: " >> \o filename),
                               ![t].saved = Append(@, attempt(FALSE))]
                 /\ dirs' = dirs \cup {filepath}
                 /\ files' = WriteFile(files, filename, tx[t].record)
    /\ UNCHANGED << call, env, flags, cfg, now, indexLog >>

\* handler, lines 129-141: the index entry index/<md5>, created when absent
mainIndex(t) ==
    /\ tx[t].pc = "index"
    /\ \E io \in env.outcomes \ {"marshalFails"} :
        LET w == tx[t].client
            entry == mainIndexName(tx[t].saved[1].id)
        IN  IF io = "mkdirFails"
            THEN /\ tx' = [tx EXCEPT ![t].pc = "done",
                               ![t].client =
                                   Log(w, << "Error while creating index directory" >>)]
                 /\ UNCHANGED << files, dirs >>
            ELSE IF entry \in DOMAIN files
            THEN /\ tx' = [tx EXCEPT ![t].pc = "done"]
                 /\ dirs' = dirs \cup {<< "index" >>}
                 /\ UNCHANGED files
            ELSE IF io = "writeFails"
            THEN /\ tx' = [tx EXCEPT ![t].pc = "done",
                               ![t].client = Log(w, << "Error while creating index" >>)]
                 /\ dirs' = dirs \cup {<< "index" >>}
                 /\ UNCHANGED files
            ELSE /\ tx' = [tx EXCEPT ![t].pc = "done", ![t].saved[1].indexed = TRUE]
                 /\ dirs' = dirs \cup {<< "index" >>}
                 /\ files' = WriteFile(files, entry, tx[t].req)
    /\ UNCHANGED << call, env, flags, cfg, now, indexLog >>

NextMain == \E t \in Tx : mainHandler(t) \/ mainPersist(t) \/ mainIndex(t)

SpecMain == InitMain /\ [][NextMain]_vars

\* ========================================================================
\* Properties
\* ========================================================================
Arrived(t) == tx[t].pc # "idle"

\* the path of the request fails --only-path / matches --except-path
FailsOnly(t) == cfg.onlyPath # << >> /\ ~MatchString(cfg.onlyPath, tx[t].in.Path)
MatchesExcept(t) == cfg.exceptPath # << >> /\ MatchString(cfg.exceptPath, tx[t].in.Path)

\* the persistence attempts of a transaction for one kind of record
Attempts(t, kind) == {i \in 1..Len(tx[t].saved) : tx[t].saved[i].kind = kind}

\* nothing of the transaction reached the disk or the index
NothingPersisted(t) ==
    /\ tx[t].saved = << >>
    /\ Tx = {t} => files = NoFile /\ indexLog = << >> /\ dirs = {}

\* the identity at the head of an index line
StartsWith(line, prefix) ==
    Len(line) >= Len(prefix) /\ SubSeq(line, 1, Len(prefix)) = prefix

\* ------------------------------------------------------------------------
\* C1: in proxy mode, whenever the response hook fired for a non-filtered
\* exchange and both records were persisted, the response record carries
\* the identity of the request record (ID field, file name, index line),
\* and that identity was minted exactly once, whatever headers the inbound
\* request carried.
C1_ResponseSharesRequestIdentity ==
    \A t \in Tx :
        (cfg.proxy /\ tx[t].pc = "done" /\ tx[t].hook /\ Len(tx[t].saved) = 2
            /\ ~tx[t].saved[1].err /\ ~tx[t].saved[2].err)
        => LET response == tx[t].saved[1]
               request == tx[t].saved[2]
           IN  /\ response.kind = "response" /\ request.kind = "request"
               /\ files[response.file].ID = files[request.file].ID
               /\ response.file =
                    FileName(cfg.dateFormat, tx[t].hookReceived,
                             files[request.file].ID, << "response" >>)
               /\ \A i \in 1..Len(indexLog) :
                    StartsWith(indexLog[i], files[request.file].ID)
               /\ Len(tx[t].minted) = 1

\* ------------------------------------------------------------------------
\* C3: in proxy mode a request that fails --only-path or matches
\* --except-path is forwarded untouched: no correlation header is added,
\* the response hook is not installed, the recorder does not read the body,
\* and neither a record nor an index line is produced.
C3_FilteredIsForwardedUntouched ==
    \A t \in Tx :
        (cfg.proxy /\ Arrived(t) /\ (FailsOnly(t) \/ MatchesExcept(t)))
        => /\ tx[t].pc \in {"serve", "done"}
           /\ tx[t].r.Header = tx[t].in.Header
           /\ ~tx[t].hook
           /\ tx[t].body = << >>
           /\ tx[t].minted = << >>
           /\ NothingPersisted(t)
           /\ tx[t].pc = "done" => tx[t].outreq.Body = tx[t].in.Body

C3_Witness ==
    \E t \in Tx :
        /\ cfg.proxy /\ tx[t].pc = "done"
        /\ ~FailsOnly(t) /\ MatchesExcept(t)
        /\ tx[t].in.Body # << >>
        /\ tx[t].client.StatusCode = 200

\* ------------------------------------------------------------------------
\* C4: in direct mode a request is either Filtered (--only-path is checked
\* first and answered 200 "Skipped: not whitelisted.", then --except-path,
\* answered 200 "Skipped: blacklisted."; nothing is written) or Recorded
\* (the client is answered 201 and exactly one persistence attempt of the
\* request record follows).
C4_DirectFilteredOrRecorded ==
    \A t \in Tx :
        (~cfg.proxy /\ Arrived(t))
        => IF FailsOnly(t)
           THEN /\ tx[t].pc = "done"
                /\ tx[t].client.StatusCode = 200
                /\ tx[t].client.Text = << "Skipped: not whitelisted." >>
                /\ NothingPersisted(t)
           ELSE IF MatchesExcept(t)
           THEN /\ tx[t].pc = "done"
                /\ tx[t].client.StatusCode = 200
                /\ tx[t].client.Text = << "Skipped: blacklisted." >>
                /\ NothingPersisted(t)
           ELSE /\ tx[t].client.StatusCode = 201
                /\ tx[t].client.Text = << "Recorded." >>
                /\ tx[t].pc \in {"saveRequest", "done"}
                /\ tx[t].pc = "saveRequest" => tx[t].saved = << >>
                /\ tx[t].pc = "done" => /\ Len(tx[t].saved) = 1
                                        /\ tx[t].saved[1].kind = "request"

C4_Witness ==
    \E t \in Tx :
        /\ ~cfg.proxy /\ tx[t].pc = "done"
        /\ cfg.onlyPath # << >> /\ ~FailsOnly(t) /\ ~MatchesExcept(t)
        /\ Len(tx[t].saved) = 1
        /\ tx[t].saved[1].file \in DOMAIN files

\* ------------------------------------------------------------------------
\* The --redact-* flags on their own: the values of the command line
\* registered one by one, then the rule list applied to texts
\* ------------------------------------------------------------------------
FlagValues ==
    { << "x" >>, << "x", "/", "y", "x" >>, << "y", "/", "z" >>,
      << "/", "q" >>, << "x", "/" >>, << "[" >>, << "x", "/", "y", "/", "z" >> }

Texts == UNION { [1..k -> {"x", "y"}] : k \in 0..MaxBodyLen }

InitRedact ==
    /\ cfg = DefaultConfig
    /\ now = 0
    /\ files = NoFile
    /\ dirs = {}
    /\ indexLog = << >>
    /\ tx = [t \in Tx |-> IdleTx]
    /\ flags = NoFlags
    /\ env = [requests |-> Requests, outcomes |-> IOOutcomes]
    /\ call = NoCall

\* arrayRedactFlag.Set: a value that compiles is appended, one that does not
\* makes the flag set panic
arrayRedactFlagSet ==
    /\ flags.phase = "flags"
    /\ Len(flags.arf) < MaxRules
    /\ \E value \in FlagValues :
         LET set == redactFlagSet(value)
         IN  flags' = IF set.err THEN [flags EXCEPT !.phase = "panic", !.value = value]
                      ELSE [flags EXCEPT !.arf = Append(@, set.item), !.value = value]
    /\ UNCHANGED << call, env, cfg, now, files, dirs, indexLog, tx >>

\* record.Parse returns: the rule list is the one the recorder runs with
FlagParse ==
    /\ flags.phase = "flags"
    /\ flags' = [flags EXCEPT !.phase = "parsed"]
    /\ UNCHANGED << call, env, cfg, now, files, dirs, indexLog, tx >>

\* arrayRedactFlag.Redact called on a text
arrayRedactFlagRedact ==
    /\ flags.phase \in {"parsed", "redacted"}
    /\ \E text \in Texts :
         flags' = [flags EXCEPT !.phase = "redacted", !.text = text,
                                !.out = ArrayRedactFlagRedact(flags.arf, text)]
    /\ UNCHANGED << call, env, cfg, now, files, dirs, indexLog, tx >>

NextRedact == arrayRedactFlagSet \/ FlagParse \/ arrayRedactFlagRedact

SpecRedact == InitRedact /\ [][NextRedact]_vars

\* ------------------------------------------------------------------------
\* Identities and file names on their own: makeRequestID called on two
\* (description, instant, salt) triples, and the path of saveJSON computed
\* for a request record and for a response record
\* ------------------------------------------------------------------------
DateFormats == { DefaultDateFormat, << "15-04-05" >>, << "2006-01-02", "/" >> }

Descriptions == { makeRequestName(HttpRequest(in)) : in \in Requests }

Identities ==
    { makeRequestID(req, n, salt) :
        req \in Descriptions, n \in 0..MaxClock, salt \in 0..MaxSalt }
    \cup { << "f" >> }

InitIdentity ==
    /\ cfg = DefaultConfig
    /\ now = 0
    /\ files = NoFile
    /\ dirs = {}
    /\ indexLog = << >>
    /\ tx = [t \in Tx |-> IdleTx]
    /\ flags = NoFlags
    /\ env = [requests |-> Requests, outcomes |-> IOOutcomes]
    /\ call = NoCall

makeRequestIDTwice ==
    /\ call.op = "none"
    /\ \E req1 \in Descriptions, req2 \in Descriptions,
          n1 \in 0..MaxClock, n2 \in 0..MaxClock,
          salt1 \in 0..MaxSalt, salt2 \in 0..MaxSalt :
         call' = [ op |-> "makeRequestID",
                   a |-> [ req |-> req1, received |-> n1, salt |-> salt1,
                           id |-> makeRequestID(req1, n1, salt1) ],
                   b |-> [ req |-> req2, received |-> n2, salt |-> salt2,
                           id |-> makeRequestID(req2, n2, salt2) ] ]
    /\ UNCHANGED << env, flags, cfg, now, files, dirs, indexLog, tx >>

saveJSONTwice ==
    /\ call.op = "none"
    /\ \E dateFormat \in DateFormats, id1 \in Identities, id2 \in Identities,
          n1 \in 0..MaxClock, n2 \in 0..MaxClock :
         call' = [ op |-> "saveJSON",
                   a |-> [ dateFormat |-> dateFormat, received |-> n1, id |-> id1,
                           filename |-> FileName(dateFormat, n1, id1, << "request" >>) ],
                   b |-> [ dateFormat |-> dateFormat, received |-> n2, id |-> id2,
                           filename |-> FileName(dateFormat, n2, id2, << "response" >>) ] ]
    /\ UNCHANGED << env, flags, cfg, now, files, dirs, indexLog, tx >>

\* saveJSON called once on the empty disk, for a date template, an identity,
\* an arrival time and an outcome of the file system (--index set)
saveJSONCall ==
    /\ call.op = "none"
    /\ \E dateFormat \in DateFormats, id \in Identities, n \in 0..MaxClock,
          suffix \in {<< "request" >>, << "response" >>},
          io \in IOOutcomes \ {"marshalFails"} :
       \E ghr \in {[cfg EXCEPT !.dateFormat = dateFormat, !.index = TRUE]} :
       \E out \in {saveJSON(ghr, Disk, [ID |-> id], id, n, suffix, << "c" >>, io)} :
         /\ call' = [ op |-> "saveJSONCall",
                      a |-> [ dateFormat |-> dateFormat, received |-> n, id |-> id,
                              suffix |-> suffix, io |-> io,
                              filebase |-> Format(n, dateFormat) ],
                      b |-> [ filename |-> out.filename, err |-> out.err ] ]
         /\ SetDisk(out.disk)
    /\ UNCHANGED << env, flags, cfg, now, tx >>

NextIdentity == makeRequestIDTwice \/ saveJSONTwice \/ saveJSONCall

SpecIdentity == InitIdentity /\ [][NextIdentity]_vars

\* ------------------------------------------------------------------------
\* dumpValues on its own: called on a map of headers, trailers or query
\* parameters whose names hold any number of values, repeated ones included
\* ------------------------------------------------------------------------
ValueLists == UNION { [1..k -> {<< "x" >>, << "y" >>}] : k \in 0..MaxValues }

ValueMaps ==
    UNION { [names -> ValueLists] : names \in SUBSET {"Authorization", "a", "b"} }

InitDump ==
    /\ cfg = DefaultConfig
    /\ now = 0
    /\ files = NoFile
    /\ dirs = {}
    /\ indexLog = << >>
    /\ tx = [t \in Tx |-> IdleTx]
    /\ flags = NoFlags
    /\ env = [requests |-> Requests, outcomes |-> IOOutcomes]
    /\ call = NoCall

dumpValuesCall ==
    /\ call.op = "none"
    /\ \E in \in ValueMaps :
         call' = [op |-> "dumpValues", a |-> in, b |-> dumpValues(in)]
    /\ UNCHANGED << env, flags, cfg, now, files, dirs, indexLog, tx >>

NextDump == dumpValuesCall

SpecDump == InitDump /\ [][NextDump]_vars

\* the rules of a list applied once each, in the order of the list, each to
\* the output of the one before
RECURSIVE RulesInOrder(_, _, _)
RulesInOrder(rules, k, text) ==
    IF k = 0 THEN text
    ELSE ReplaceAllString(rules[k].regex, RulesInOrder(rules, k - 1, text),
                          rules[k].replace)

\* the request record was assembled, body included
RequestCaptured(t) ==
    /\ tx[t].pc \in {"saveRequest", "done"}
    /\ IF cfg.proxy THEN tx[t].hook ELSE ~FailsOnly(t) /\ ~MatchesExcept(t)

\* the response record was assembled, body included
ResponseCaptured(t) == Attempts(t, "response") # {}

\* the record as captured, before redaction
Captured(t, kind) == IF kind = "request" THEN tx[t].record ELSE tx[t].hookRecord

\* ------------------------------------------------------------------------
\* C5: in every persisted record (request records of both modes, response
\* records) every header line and trailer line is the captured line with
\* the header rules applied once, and the body is the captured body with the
\* body rules applied once; what is written is the redacted record.
C5_PersistedRecordsAreRedactedOnce ==
    \A t \in Tx : \A i \in 1..Len(tx[t].saved) :
        ~tx[t].saved[i].err
        => LET json == files[tx[t].saved[i].file]
               captured == Captured(t, tx[t].saved[i].kind)
               headerRules == cfg.redactHeaders
               bodyRules == cfg.redactBody
           IN  /\ Len(json.Headers) = Len(captured.Headers)
               /\ \A k \in 1..Len(captured.Headers) :
                    json.Headers[k] =
                        RulesInOrder(headerRules, Len(headerRules), captured.Headers[k])
               /\ Len(json.Trailers) = Len(captured.Trailers)
               /\ \A k \in 1..Len(captured.Trailers) :
                    json.Trailers[k] =
                        RulesInOrder(headerRules, Len(headerRules), captured.Trailers[k])
               /\ json.Body = RulesInOrder(bodyRules, Len(bodyRules), captured.Body)

C5_Witness ==
    \E t \in Tx :
        /\ cfg.proxy /\ tx[t].pc = "done" /\ Len(tx[t].saved) = 2
        /\ ~tx[t].saved[1].err /\ ~tx[t].saved[2].err
        /\ cfg.redactBody # << >> /\ cfg.redactHeaders # << >>
        /\ files[tx[t].saved[1].file].Body # tx[t].hookRecord.Body
        /\ files[tx[t].saved[2].file].Body # tx[t].record.Body
        /\ files[tx[t].saved[2].file].Headers # tx[t].record.Headers

\* ------------------------------------------------------------------------
\* C7: for every kind of record the captured body is never longer than
\* max-body-size N >= 0, and with max-body-size -1 it is the whole
\* transmitted body.
C7_CapturedBodyWithinBound ==
    \A t \in Tx :
        /\ RequestCaptured(t)
            => /\ cfg.maxBodySize >= 0 => Len(tx[t].record.Body) <= cfg.maxBodySize
               /\ cfg.maxBodySize = -1 => tx[t].record.Body = tx[t].in.Body
        /\ ResponseCaptured(t)
            => /\ cfg.maxBodySize >= 0 => Len(tx[t].hookRecord.Body) <= cfg.maxBodySize
               /\ cfg.maxBodySize = -1 => tx[t].hookRecord.Body = tx[t].resp.Body

C7_Witness ==
    \E t \in Tx :
        /\ cfg.proxy /\ tx[t].pc = "done" /\ ResponseCaptured(t) /\ RequestCaptured(t)
        /\ cfg.maxBodySize >= 0
        /\ Len(tx[t].in.Body) > cfg.maxBodySize
        /\ Len(tx[t].resp.Body) > cfg.maxBodySize
        /\ Len(tx[t].hookRecord.Body) = cfg.maxBodySize

\* ------------------------------------------------------------------------
\* C8: for every kind of record (the proxy request record after the
\* forwarding call consumed the body included), when max-body-size is N >= 0
\* and the transmitted body is longer than N, the captured body is the first
\* N bytes of the transmitted body.
C8_CapturedBodyIsFirstNBytes ==
    \A t \in Tx :
        /\ (RequestCaptured(t) /\ cfg.maxBodySize >= 0
                /\ Len(tx[t].in.Body) > cfg.maxBodySize)
            => tx[t].record.Body = SubSeq(tx[t].in.Body, 1, cfg.maxBodySize)
        /\ (ResponseCaptured(t) /\ cfg.maxBodySize >= 0
                /\ Len(tx[t].resp.Body) > cfg.maxBodySize)
            => tx[t].hookRecord.Body = SubSeq(tx[t].resp.Body, 1, cfg.maxBodySize)

\* ------------------------------------------------------------------------
\* C9 as claimed: with max-body-size N >= 0, no buffer of the recorder
\* (direct handler, proxy handler, response hook) ever holds more than N
\* bytes of the body of a transaction.
C9_NoBufferBeyondBound ==
    \A t \in Tx :
        cfg.maxBodySize >= 0
        => /\ Len(tx[t].body) <= cfg.maxBodySize
           /\ Len(tx[t].hookBody) <= cfg.maxBodySize

\* C9 as amended: with max-body-size N >= 0 the direct handler never holds
\* more than N bytes of the request body; in proxy mode the handler and the
\* response hook buffer the complete body whatever N is, and only the copy
\* captured for the record is limited to N bytes.
C9_DirectBufferWithinBound ==
    \A t \in Tx :
        /\ (~cfg.proxy /\ cfg.maxBodySize >= 0)
            => Len(tx[t].body) <= cfg.maxBodySize /\ tx[t].hookBody = << >>
        /\ (cfg.proxy /\ tx[t].hook) => tx[t].body = tx[t].in.Body
        /\ (cfg.proxy /\ tx[t].pc \in {"saveResponse", "relay"})
            => tx[t].hookBody = tx[t].resp.Body
        /\ (cfg.proxy /\ cfg.maxBodySize >= 0)
            => /\ RequestCaptured(t) => Len(tx[t].record.Body) <= cfg.maxBodySize
               /\ ResponseCaptured(t) => Len(tx[t].hookRecord.Body) <= cfg.maxBodySize

C9_Witness ==
    \E t \in Tx :
        /\ ~cfg.proxy /\ tx[t].pc = "done"
        /\ cfg.maxBodySize >= 0
        /\ Len(tx[t].in.Body) > cfg.maxBodySize
        /\ Len(tx[t].body) = cfg.maxBodySize
        /\ tx[t].stream # << >>

\* ------------------------------------------------------------------------
\* C10: in direct mode the answer to a recorded request is decided before
\* persistence begins: when the deferred save is about to run the client
\* has been answered 201 and nothing has been persisted, and the save
\* leaves that answer as it is whether it succeeds or fails.
C10_AnswerDecidedBeforePersistence ==
    [][ \A t \in Tx :
          (~cfg.proxy /\ tx[t].pc = "saveRequest")
          => /\ tx[t].client.StatusCode = 201
             /\ NothingPersisted(t)
             /\ tx'[t].client = tx[t].client
             /\ tx'[t].client.StatusCode = 201 ]_vars

C10_Witness ==
    \E t \in Tx :
        /\ ~cfg.proxy /\ tx[t].pc = "done"
        /\ Len(tx[t].saved) = 1 /\ tx[t].saved[1].err
        /\ tx[t].saved[1].file \notin DOMAIN files
        /\ tx[t].client.StatusCode = 201

\* ------------------------------------------------------------------------
\* C2: whatever the filters and the mode, a request whose path matches the
\* except-pattern is never persisted: no request record, no response
\* record, no index line, whether or not the path also matches the
\* only-pattern.
C2_ExceptPathNeverPersisted ==
    \A t \in Tx :
        (Arrived(t) /\ MatchesExcept(t))
        => /\ NothingPersisted(t)
           /\ tx[t].minted = << >>
           /\ tx[t].pc \notin {"saveRequest", "saveResponse", "hook", "relay", "resume"}

C2_Witness ==
    \E t \in Tx :
        /\ tx[t].pc = "done" /\ MatchesExcept(t)
        /\ cfg.onlyPath # << >> /\ MatchString(cfg.onlyPath, tx[t].in.Path)
        /\ cfg.index

\* ------------------------------------------------------------------------
\* C6: Redact over a rule list applies every registered rule once, in the
\* order of registration, each to the output of the rule before; with no
\* rule the text comes back unchanged; and a call leaves the rule list as
\* it was.
C6_RedactAppliesRulesInOrder ==
    /\ [](flags.phase = "redacted"
            => /\ flags.out = RulesInOrder(flags.arf, Len(flags.arf), flags.text)
               /\ flags.arf = << >> => flags.out = flags.text)
    /\ [][flags.phase \in {"parsed", "redacted"} => flags'.arf = flags.arf]_vars

C6_Witness ==
    /\ flags.phase = "redacted"
    /\ Len(flags.arf) >= 2
    /\ flags.arf[1] # flags.arf[2]
    /\ flags.out # flags.text
    /\ flags.out # RedactFlagRedact(flags.arf[1], RedactFlagRedact(flags.arf[2], flags.text))

\* the response hook of the exchange has run
HookFired(t) == tx[t].hookRecord.ID # EmptyString

\* ------------------------------------------------------------------------
\* C11: in a proxied, non-filtered exchange whose response hook fires, the
\* persistence of the response record (file write and index line) is
\* complete before the persistence of the request record begins.
C11_ResponsePersistedBeforeRequest ==
    \A t \in Tx :
        (cfg.proxy /\ tx[t].hook)
        => /\ tx[t].pc \in {"serve", "hook", "saveResponse", "relay", "resume", "saveRequest"}
                => Attempts(t, "request") = {}
           /\ (HookFired(t) /\ tx[t].pc \in {"relay", "resume", "saveRequest", "done"})
                => /\ Attempts(t, "response") = {1}
                   /\ ~tx[t].saved[1].err
                        => /\ tx[t].saved[1].file \in DOMAIN files
                           /\ (cfg.index /\ indexLog # << >> /\ tx[t].pc # "done")
                                => indexLog = << IndexLine(tx[t].saved[1].id,
                                                    tx[t].saved[1].file, tx[t].req) >>
           /\ (HookFired(t) /\ tx[t].pc = "done")
                => Attempts(t, "request") = {2}

C11_Witness ==
    \E t \in Tx :
        /\ cfg.proxy /\ tx[t].pc = "saveRequest" /\ HookFired(t) /\ cfg.index
        /\ Len(tx[t].saved) = 1 /\ ~tx[t].saved[1].err
        /\ tx[t].saved[1].kind = "response"
        /\ tx[t].saved[1].file \in DOMAIN files
        /\ Len(indexLog) = 1

\* ------------------------------------------------------------------------
\* C12: the response hook mints a fresh identity exactly when the identity
\* propagated on the forwarded request is missing or is not the one the
\* proxy handler propagated; the response is then recorded under the new
\* identity; in every case the hook attempts the response record and the
\* client is relayed the upstream's answer.
C12_HookMintsIffMissingOrCorrupt ==
    \A t \in Tx :
        (cfg.proxy /\ HookFired(t))
        => LET found == HeaderGet(tx[t].res.Request.Header, "X-Gohrec-Request-Id")
               propagated == tx[t].minted[1]
               hookMinted == Len(tx[t].minted) >= 2
           IN  /\ hookMinted <=> (found = EmptyString \/ found # propagated)
               /\ tx[t].hookRecord.ID =
                    (IF hookMinted THEN tx[t].minted[2] ELSE propagated)
               /\ tx[t].pc \in {"relay", "resume", "saveRequest", "done"}
                    => Attempts(t, "response") = {1}
               /\ tx[t].pc \in {"resume", "saveRequest", "done"}
                    => tx[t].client.StatusCode = tx[t].resp.Status

\* ------------------------------------------------------------------------
\* C13: once the response hook has run, the body relayed to the client is
\* the body the upstream sent, complete and in order, whatever
\* max-body-size and the redaction rules are; the record's bytes are read
\* from a buffer of their own, which leaves the relayed stream whole.
C13_RelayedBodyIsUpstreamBody ==
    \A t \in Tx :
        (cfg.proxy /\ HookFired(t))
        => /\ tx[t].pc \in {"saveResponse", "relay"} => tx[t].resStream = tx[t].resp.Body
           /\ tx[t].pc = "saveResponse" => tx[t].hookBody = tx[t].resp.Body
           /\ tx[t].pc \in {"resume", "saveRequest", "done"}
                => tx[t].client.Body = tx[t].resp.Body

C13_Witness ==
    \E t \in Tx :
        /\ cfg.proxy /\ HookFired(t) /\ tx[t].pc = "done"
        /\ cfg.maxBodySize >= 0 /\ Len(tx[t].resp.Body) > cfg.maxBodySize
        /\ cfg.redactBody # << >>
        /\ ~tx[t].saved[1].err
        /\ files[tx[t].saved[1].file].Body # tx[t].resp.Body
        /\ tx[t].client.Body = tx[t].resp.Body

\* ------------------------------------------------------------------------
\* C14: in proxy mode the transport is handed a body stream that yields the
\* whole body the client sent, whatever max-body-size and the redaction
\* rules are: nothing done for the record shortens or alters what is
\* forwarded.
C14_ForwardedBodyIsWholeBody ==
    \A t \in Tx :
        cfg.proxy
        => /\ tx[t].pc = "serve" => tx[t].stream = tx[t].in.Body
           /\ tx[t].pc \notin {"idle", "serve"} => tx[t].outreq.Body = tx[t].in.Body

C14_Witness ==
    \E t \in Tx :
        /\ cfg.proxy /\ tx[t].hook /\ tx[t].pc = "done" /\ HookFired(t)
        /\ cfg.maxBodySize >= 0 /\ Len(tx[t].in.Body) > cfg.maxBodySize
        /\ cfg.redactBody # << >>
        /\ Len(tx[t].record.Body) < Len(tx[t].in.Body)
        /\ tx[t].outreq.Body = tx[t].in.Body

\* ------------------------------------------------------------------------
\* C15: for every identity, arrival time and date template the path of a
\* request record differs from the path of a response record; computed from
\* the same identity and arrival time the two paths differ in the kind tag
\* only.
C15_RequestAndResponsePathsDiffer ==
    call.op = "saveJSON"
    => /\ call.a.filename # call.b.filename
       /\ (call.a.id = call.b.id /\ call.a.received = call.b.received)
            => /\ Len(call.a.filename) = Len(call.b.filename)
               /\ \A i \in 1..Len(call.a.filename) :
                    call.a.filename[i] # call.b.filename[i]
                    => call.a.filename[i] = "request" /\ call.b.filename[i] = "response"

C15_Witness ==
    /\ call.op = "saveJSON"
    /\ call.a.dateFormat = DefaultDateFormat
    /\ call.a.id = call.b.id /\ call.a.id # << "f" >>
    /\ call.a.received = call.b.received /\ call.a.received > 0
    /\ call.a.filename # call.b.filename

\* ------------------------------------------------------------------------
\* C19: two identities minted for the same description and the same arrival
\* nanosecond differ when their salts differ; in general equal identities
\* have the same arrival time, the same salt and the same fingerprint of
\* the description.
C19_IdentityIsInjective ==
    call.op = "makeRequestID"
    => /\ (call.a.req = call.b.req /\ call.a.received = call.b.received
                /\ call.a.salt # call.b.salt)
            => call.a.id # call.b.id
       /\ call.a.id = call.b.id
            => /\ call.a.received = call.b.received
               /\ call.a.salt = call.b.salt
               /\ Md5Sum(call.a.req) = Md5Sum(call.b.req)

C19_Witness ==
    /\ call.op = "makeRequestID"
    /\ call.a.req = call.b.req /\ call.a.received = call.b.received
    /\ call.a.salt # call.b.salt
    /\ call.a.id # call.b.id

\* the attempt a save step of transaction t has just recorded
NewAttempt(t) == tx'[t].saved[Len(tx'[t].saved)]

\* transaction t takes a save step
Saves(t) == Len(tx'[t].saved) = Len(tx[t].saved) + 1

\* no identity makeRequestID returned to one transaction was returned to
\* another, and no two transactions arrived at the same instant
NoCollision ==
    \A t1 \in DOMAIN tx, t2 \in DOMAIN tx :
        (t1 # t2 /\ tx'[t1].pc # "idle" /\ tx'[t2].pc # "idle")
        => /\ tx'[t1].received # tx'[t2].received
           /\ \A i \in 1..Len(tx'[t1].minted), j \in 1..Len(tx'[t2].minted) :
                tx'[t1].minted[i] # tx'[t2].minted[j]

\* ------------------------------------------------------------------------
\* C16: across the transactions the recorder handles, whatever headers the
\* requests carry, every successful write creates a file at a path that
\* held no record before, so that a written record is never changed or
\* replaced (stated even for runs in which no two minted identities and no
\* two arrival instants coincide).
C16_WrittenRecordsAreNeverReplaced ==
    [][ \A t \in DOMAIN tx :
          (Saves(t) /\ ~NewAttempt(t).err /\ NoCollision)
          => /\ NewAttempt(t).file \notin DOMAIN files
             /\ \A f \in DOMAIN files : f \in DOMAIN files' /\ files'[f] = files[f] ]_vars

\* the identities transaction t may call its own: those minted for it and
\* those its own request carried
OwnIdentities(t) ==
    { tx'[t].minted[i] : i \in 1..Len(tx'[t].minted) }
    \cup (IF "X-Gohrec-Request-Id" \in DOMAIN tx[t].in.Header
          THEN { tx[t].in.Header["X-Gohrec-Request-Id"][i] :
                    i \in 1..Len(tx[t].in.Header["X-Gohrec-Request-Id"]) }
          ELSE {})

LineOf(t, a) == a.id \o << "\t" >> \o a.file \o << "\t" >> \o tx[t].req

\* ------------------------------------------------------------------------
\* C17: with --index every record file that is written is followed by one
\* appended line holding the record's identity, path and description,
\* unless the append itself fails; a record whose directory creation,
\* serialization or write fails appends nothing; without --index nothing
\* is appended; the lines already in the index are never changed or
\* removed; and the record file stays whatever becomes of the append.
C17_IndexFollowsWrittenRecords ==
    [][ /\ Len(indexLog') >= Len(indexLog)
        /\ SubSeq(indexLog', 1, Len(indexLog)) = indexLog
        /\ \A f \in DOMAIN files : f \in DOMAIN files'
        /\ (\A t \in Tx : ~Saves(t)) => indexLog' = indexLog
        /\ \A t \in Tx :
             Saves(t)
             => LET a == NewAttempt(t)
                IN  /\ (a.err \/ ~cfg.index) => (~a.indexed /\ indexLog' = indexLog)
                    /\ a.indexed => indexLog' = Append(indexLog, LineOf(t, a))
                    /\ ~a.indexed => indexLog' = indexLog
                    /\ ~a.err => a.file \in DOMAIN files' ]_vars

C17_Witness ==
    \E t \in Tx :
        /\ cfg.index /\ cfg.proxy /\ tx[t].pc = "done" /\ Len(tx[t].saved) = 2
        /\ tx[t].saved[1].indexed
        /\ ~tx[t].saved[2].err /\ ~tx[t].saved[2].indexed
        /\ tx[t].saved[2].file \in DOMAIN files
        /\ indexLog = << LineOf(t, tx[t].saved[1]) >>

\* ------------------------------------------------------------------------
\* C18: a persistence failure ends the work on the failing record only and
\* never reaches the proxy client: after a failed directory creation,
\* serialization or write nothing more is done for that record (no file,
\* no index line); the hook returns no error, so the client is relayed the
\* upstream's answer; and the request record is attempted whatever became
\* of the response record.
C18_PersistenceFailuresStayLocal ==
    \A t \in Tx :
        /\ \A i \in 1..Len(tx[t].saved) :
             tx[t].saved[i].err
             => /\ tx[t].saved[i].file \notin DOMAIN files
                /\ \A k \in 1..Len(indexLog) : indexLog[k] # LineOf(t, tx[t].saved[i])
        /\ (cfg.proxy /\ HookFired(t) /\ tx[t].pc \in {"resume", "saveRequest", "done"})
             => /\ tx[t].client.StatusCode = tx[t].resp.Status
                /\ tx[t].client.Body = tx[t].resp.Body
        /\ (cfg.proxy /\ tx[t].hook /\ tx[t].pc = "done")
             => /\ Attempts(t, "request") # {}
                /\ HookFired(t) => Len(tx[t].saved) = 2
                /\ \A i \in 1..Len(tx[t].saved) :
                     (~tx[t].saved[i].err) => tx[t].saved[i].file \in DOMAIN files

C18_Witness ==
    \E t \in Tx :
        /\ cfg.proxy /\ cfg.index /\ HookFired(t) /\ tx[t].pc = "done"
        /\ tx[t].saved[1].kind = "response" /\ tx[t].saved[1].err
        /\ tx[t].saved[2].kind = "request" /\ ~tx[t].saved[2].err
        /\ tx[t].saved[2].file \in DOMAIN files
        /\ Len(indexLog) = 1
        /\ tx[t].client.StatusCode = tx[t].resp.Status

\* the values a header map holds for a name
HeaderValues(h, k) ==
    IF k \in DOMAIN h THEN {h[k][i] : i \in 1..Len(h[k])} ELSE {}

\* ------------------------------------------------------------------------
\* C21: for every non-filtered proxied request both correlation headers are
\* on the request handed to the transport and on the request sent upstream,
\* carrying the minted identity and the arrival instant in nanoseconds; the
\* instant the response hook recovers from the header is the arrival
\* instant of the request, so that the response file has the rendered base
\* and the nanosecond suffix of the request file; when the header is
\* missing or not a decimal integer the hook uses the instant at which the
\* response arrived.
C21_HookRecoversArrivalInstant ==
    \A t \in DOMAIN tx :
        (cfg.proxy /\ tx[t].hook /\ Arrived(t))
        => /\ tx[t].minted[1] \in HeaderValues(tx[t].r.Header, "X-Gohrec-Request-Id")
           /\ FormatInt(tx[t].received)
                \in HeaderValues(tx[t].r.Header, "X-Gohrec-Request-Received")
           /\ tx[t].pc # "serve"
                => /\ tx[t].minted[1]
                        \in HeaderValues(tx[t].outreq.Request.Header, "X-Gohrec-Request-Id")
                   /\ FormatInt(tx[t].received)
                        \in HeaderValues(tx[t].outreq.Request.Header,
                                         "X-Gohrec-Request-Received")
           /\ HookFired(t)
                => LET field == HeaderGet(tx[t].res.Request.Header,
                                          "X-Gohrec-Request-Received")
                   IN  IF field = EmptyString \/ ~ParseInt(field).ok
                       THEN tx[t].hookReceived = tx[t].hookRecord.DateUnixNano
                       ELSE /\ tx[t].hookReceived = tx[t].received
                            /\ Format(tx[t].hookReceived, cfg.dateFormat)
                                 = Format(tx[t].received, cfg.dateFormat)
                            /\ Nanosecond(tx[t].hookReceived) = Nanosecond(tx[t].received)

\* ------------------------------------------------------------------------
\* C22: only the directory portion of the rendered path, the text before
\* its last "/", is created before the file is written; when the rendered
\* template holds no "/" the directory portion is empty, no directory is
\* created, and the record file is written in the working directory.
C22_OnlyDirectoryPortionIsCreated ==
    call.op = "saveJSONCall"
    => LET filebase == call.a.filebase
           slash == LastIndex(filebase, "/")
       IN  /\ call.a.io # "mkdirFails"
                => dirs = IF slash > 0 THEN {SubSeq(filebase, 1, slash - 1)} ELSE {}
           /\ call.a.io = "mkdirFails" => dirs = {} /\ files = NoFile
           /\ ~call.b.err
                => /\ DOMAIN files = {call.b.filename}
                   /\ SubSeq(call.b.filename, 1, Len(filebase)) = filebase
           /\ (slash = 0 /\ ~call.b.err)
                => /\ dirs = {}
                   /\ \A i \in 1..Len(call.b.filename) : call.b.filename[i] # "/"

\* a step that registers one value of a --redact-* flag
SetsFlag == flags.phase = "flags" /\ flags'.phase # "parsed" /\ flags' # flags

\* ------------------------------------------------------------------------
\* C23: a rule string is split at its last "/": the text before it is the
\* pattern, the text after it the replacement (empty after a trailing "/");
\* a rule string without "/" is the pattern as a whole, with the marker
\* **REDACTED** as replacement; a rule whose pattern does not compile is
\* refused with an error and not appended, and the rules registered so far
\* stay as they were.
C23_RuleSplitAtLastSlash ==
    [][ SetsFlag
        => LET value == flags'.value
               slashes == {i \in 1..Len(value) : value[i] = "/"}
               last == IF slashes = {} THEN 0
                       ELSE CHOOSE i \in slashes : \A j \in slashes : j <= i
               pattern == IF last = 0 THEN value ELSE SubSeq(value, 1, last - 1)
               replace == IF last = 0 THEN << "**REDACTED**" >>
                          ELSE SubSeq(value, last + 1, Len(value))
           IN  IF \E i \in 1..Len(pattern) : pattern[i] = "["
               THEN flags'.phase = "panic" /\ flags'.arf = flags.arf
               ELSE /\ flags'.phase = "flags"
                    /\ flags'.arf = Append(flags.arf, [regex |-> pattern, replace |-> replace])
      ]_vars

C23_Witness ==
    /\ flags.phase = "panic"
    /\ flags.value = << "[" >>
    /\ flags.arf = << [regex |-> << "x", "/", "y" >>, replace |-> << "z" >>] >>

\* ------------------------------------------------------------------------
\* C24: for any multi-valued map the flattened list holds one "name: value"
\* line per value occurrence (as many lines as there are values, repeated
\* values kept, a name without values giving no line) and is sorted in
\* ascending lexicographic order.
C24_OneSortedLinePerValue ==
    call.op = "dumpValues"
    => LET in == call.a
           out == call.b
           occurrences == UNION {{<< n, i >> : i \in 1..Len(in[n])} : n \in DOMAIN in}
       IN  /\ Len(out) = Cardinality(occurrences)
           /\ \A n \in DOMAIN in : \A v \in {in[n][i] : i \in 1..Len(in[n])} :
                Cardinality({k \in 1..Len(out) : out[k] = << n, ": " >> \o v})
                    = Cardinality({i \in 1..Len(in[n]) : in[n][i] = v})
           /\ \A k \in 1..Len(out) :
                \E o \in occurrences : out[k] = << o[1], ": " >> \o in[o[1]][o[2]]
           /\ \A k \in 1..(Len(out) - 1) : ~StringLess(out[k + 1], out[k])

C24_Witness ==
    /\ call.op = "dumpValues"
    /\ call.a = [n \in {"Authorization", "a", "b"} |->
                    IF n = "a" THEN << << "y" >>, << "y" >> >>
                    ELSE IF n = "b" THEN << << "y" >>, << "x" >> >> ELSE << >>]
    /\ call.b = << << "a", ": ", "y" >>, << "a", ": ", "y" >>,
                   << "b", ": ", "x" >>, << "b", ": ", "y" >> >>

\* the body as the sender transmitted it: the client's for a request record,
\* the upstream's for a response record
Transmitted(t, kind) == IF kind = "request" THEN tx[t].in.Body ELSE tx[t].resp.Body

C26_UnansweredRequestIsStillRecorded ==
    \A t \in Tx :
        (cfg.proxy /\ tx[t].hook /\ ~HookFired(t))
        => /\ Attempts(t, "response") = {}
           /\ tx[t].pc \in {"resume", "saveRequest"} => tx[t].saved = << >>
           /\ tx[t].pc = "done"
                => /\ Len(tx[t].saved) = 1
                   /\ tx[t].saved[1].kind = "request"
                   /\ tx[t].minted = << tx[t].saved[1].id >>
                   /\ tx[t].saved[1].file
                        = FileName(cfg.dateFormat, tx[t].received, tx[t].minted[1],
                                   << "request" >>)
                   /\ ~tx[t].saved[1].err
                        => /\ DOMAIN files = {tx[t].saved[1].file}
                           /\ files[tx[t].saved[1].file].ID = tx[t].minted[1]
                   /\ tx[t].saved[1].err => files = NoFile
                   /\ Len(indexLog) <= 1

C26_Witness ==
    \E t \in Tx :
        /\ cfg.proxy /\ tx[t].hook /\ ~HookFired(t) /\ tx[t].pc = "done"
        /\ tx[t].client.StatusCode = 502
        /\ ~tx[t].saved[1].err
        /\ files[tx[t].saved[1].file].ID = tx[t].minted[1]
        /\ Len(indexLog) = 1

\* the header line as it is persisted: the header rules applied to it
PersistedLine(line) == RulesInOrder(cfg.redactHeaders, Len(cfg.redactHeaders), line)

\* the line occurs among the header lines of a record
HasLine(record, line) == \E k \in 1..Len(record.Headers) : record.Headers[k] = line

\* ------------------------------------------------------------------------
\* C27: in proxy mode the correlation metadata is visible outside the hook:
\* the correlation headers are added before the request record is
\* assembled, so that every persisted proxy-mode request record has the
\* identity line and the arrival-time line among its header lines; and the
\* hook adds a response-identity header equal to the record's identity to
\* the response, which is among the header lines of the persisted response
\* record and in the response relayed to the client.
C27_CorrelationMetadataIsVisible ==
    \A t \in Tx :
        cfg.proxy
        => /\ \A i \in 1..Len(tx[t].saved) :
                ~tx[t].saved[i].err
                => LET json == files[tx[t].saved[i].file]
                   IN  IF tx[t].saved[i].kind = "request"
                       THEN /\ HasLine(tx[t].record,
                                       << "X-Gohrec-Request-Id", ": " >> \o json.ID)
                            /\ HasLine(json, PersistedLine(
                                       << "X-Gohrec-Request-Id", ": " >> \o json.ID))
                            /\ HasLine(json, PersistedLine(
                                       << "X-Gohrec-Request-Received", ": " >>
                                           \o FormatInt(tx[t].received)))
                       ELSE /\ json.ID = tx[t].hookRecord.ID
                            /\ HasLine(json, PersistedLine(
                                       << "X-Gohrec-Response-Id", ": " >> \o json.ID))
           /\ (HookFired(t) /\ tx[t].pc \in {"resume", "saveRequest", "done"})
                => tx[t].hookRecord.ID
                     \in HeaderValues(tx[t].client.Header, "X-Gohrec-Response-Id")

C27_Witness ==
    \E t \in Tx :
        /\ cfg.proxy /\ HookFired(t) /\ tx[t].pc = "done"
        /\ cfg.redactHeaders # << >>
        /\ Len(tx[t].saved) = 2 /\ ~tx[t].saved[1].err /\ ~tx[t].saved[2].err
        /\ HasLine(files[tx[t].saved[2].file],
                   << "X-Gohrec-Request-Id", ": " >> \o tx[t].minted[1])
        /\ HasLine(files[tx[t].saved[2].file],
                   << "X-Gohrec-Request-Received", ": " >> \o FormatInt(tx[t].received))
        /\ HasLine(files[tx[t].saved[1].file],
                   << "X-Gohrec-Response-Id", ": " >> \o tx[t].hookRecord.ID)
        /\ tx[t].client.Header["X-Gohrec-Response-Id"] = << tx[t].hookRecord.ID >>
        /\ tx[t].received > 0

\* the description of the request as the client sent it:
\* "[RemoteAddr] Method http://Host" and the raw request target
Description(in) ==
    << "[" >> \o in.RemoteAddr \o << "] " >> \o in.Method \o << " http://" >>
        \o in.Host \o in.Path
        \o (IF DOMAIN in.Query = {} THEN << >>
            ELSE << "?", "q", "=" >> \o in.Query["q"][1])

\* ------------------------------------------------------------------------
\* C28: redaction touches only header lines, trailer lines and the body:
\* the Path, Query and URI fields of a persisted request record and the
\* description column of every index line (remote address and raw request
\* target, query string included) are written as received, even where a
\* redaction pattern matches them.
C28_RedactionLeavesTargetAsReceived ==
    \A t \in Tx :
        /\ \A i \in 1..Len(tx[t].saved) :
             (~tx[t].saved[i].err /\ tx[t].saved[i].kind = "request")
             => LET json == files[tx[t].saved[i].file]
                    in == tx[t].in
                IN  /\ json.Path = in.Path
                    /\ json.URI = in.Path \o (IF DOMAIN in.Query = {} THEN << >>
                                              ELSE << "?", "q", "=" >> \o in.Query["q"][1])
                    /\ json.Query = (IF DOMAIN in.Query = {} THEN << >>
                                     ELSE << << "q", ": " >> \o in.Query["q"][1] >>)
                    /\ json.RemoteAddr = in.RemoteAddr
        /\ \A i \in 1..Len(tx[t].saved) :
             tx[t].saved[i].indexed
             => \E k \in 1..Len(indexLog) :
                    indexLog[k] = tx[t].saved[i].id \o << "\t" >> \o tx[t].saved[i].file
                                    \o << "\t" >> \o Description(tx[t].in)
        /\ \A k \in 1..Len(indexLog) :
             \E i \in 1..Len(tx[t].saved) :
                 indexLog[k] = tx[t].saved[i].id \o << "\t" >> \o tx[t].saved[i].file
                                 \o << "\t" >> \o Description(tx[t].in)

C28_Witness ==
    \E t \in Tx :
        /\ tx[t].pc = "done" /\ cfg.proxy /\ Len(tx[t].saved) = 2
        /\ tx[t].saved[1].indexed /\ tx[t].saved[2].indexed
        /\ MatchString(cfg.redactHeaders[1].regex, tx[t].in.Path)
        /\ tx[t].in.Query # NoHeader
        /\ MatchString(cfg.redactHeaders[1].regex, files[tx[t].saved[2].file].URI)
        /\ MatchString(cfg.redactHeaders[1].regex, files[tx[t].saved[2].file].Query[1])
        /\ files[tx[t].saved[2].file].Headers # tx[t].record.Headers
        /\ Len(indexLog) = 2
        /\ MatchString(cfg.redactHeaders[1].regex, indexLog[1])

\* ------------------------------------------------------------------------
\* C29: in direct mode with --echo the record echoed to the client is
\* serialized before redaction and before the identity is assigned: it has
\* the captured header lines and body unredacted and an empty ID, whereas
\* the record persisted for the same request has the redacted values and a
\* non-empty ID.
C29_EchoIsUnredactedAndUnidentified ==
    \A t \in Tx :
        (~cfg.proxy /\ cfg.echo /\ RequestCaptured(t))
        => /\ Len(tx[t].client.Echo) = 1
           /\ LET echoed == tx[t].client.Echo[1]
                  sent == tx[t].in.Body
                  captured == IF cfg.maxBodySize = -1 \/ Len(sent) <= cfg.maxBodySize
                              THEN sent ELSE SubSeq(sent, 1, cfg.maxBodySize)
              IN  /\ echoed.ID = EmptyString
                  /\ Len(echoed.Headers)
                       = Cardinality(UNION {{<< n, i >> : i \in 1..Len(tx[t].in.Header[n])} :
                                              n \in DOMAIN tx[t].in.Header})
                  /\ \A n \in DOMAIN tx[t].in.Header :
                       \A i \in 1..Len(tx[t].in.Header[n]) :
                          HasLine(echoed, << n, ": " >> \o tx[t].in.Header[n][i])
                  /\ echoed.Body = captured
                  /\ \A i \in 1..Len(tx[t].saved) :
                       ~tx[t].saved[i].err
                       => LET json == files[tx[t].saved[i].file]
                          IN  /\ json.ID # EmptyString
                              /\ json.ID = tx[t].saved[i].id
                              /\ json.Body = RulesInOrder(cfg.redactBody,
                                                          Len(cfg.redactBody), echoed.Body)
                              /\ Len(json.Headers) = Len(echoed.Headers)
                              /\ \A k \in 1..Len(echoed.Headers) :
                                   json.Headers[k] = PersistedLine(echoed.Headers[k])

C29_Witness ==
    \E t \in Tx :
        /\ ~cfg.proxy /\ cfg.echo /\ tx[t].pc = "done"
        /\ Len(tx[t].saved) = 1 /\ ~tx[t].saved[1].err
        /\ tx[t].client.Echo[1].ID = EmptyString
        /\ files[tx[t].saved[1].file].ID # EmptyString
        /\ files[tx[t].saved[1].file].Headers # tx[t].client.Echo[1].Headers
        /\ files[tx[t].saved[1].file].Body # tx[t].client.Echo[1].Body
        /\ tx[t].client.Echo[1].Body = tx[t].in.Body

\* the messages the handler of src/main.go prints for a failed persistence
PersistenceErrors ==
    { << "Error while serializing record" >>, << "Error while preparing save" >>,
      << "Error while saving" >> }

\* the response holds the line
HasText(w, text) == \E k \in 1..Len(w.Text) : w.Text[k] = text

\* ------------------------------------------------------------------------
\* C30: in the recorder of src/main.go persistence precedes the answer: a
\* non-filtered request is answered 201 only after its record file has been
\* written; when serialization, directory creation or the file write fails
\* the client is answered 500 with the error text, no record file is
\* reported and no index entry is created; and a failure while creating the
\* index entry after a successful write leaves the 201 already sent.
C30_PersistencePrecedesAnswer ==
    /\ [](\A t \in Tx :
            /\ tx[t].pc = "persist" => tx[t].client.StatusCode # 201
            /\ (tx[t].pc # "idle" /\ tx[t].client.StatusCode = 201)
                 => /\ tx[t].saved # << >>
                    /\ ~tx[t].saved[1].err
                    /\ tx[t].saved[1].file \in DOMAIN files
                    /\ HasText(tx[t].client, << "Recorded: " >> \o tx[t].saved[1].file)
            /\ (tx[t].saved # << >> /\ tx[t].saved[1].err)
                 => /\ tx[t].pc = "done"
                    /\ tx[t].client.StatusCode = 500
                    /\ \E text \in PersistenceErrors : HasText(tx[t].client, text)
                    /\ \A k \in 1..Len(tx[t].client.Text) :
                         tx[t].client.Text[k][1] # "Recorded: "
                    /\ files = NoFile
                    /\ << "index" >> \notin dirs)
    /\ [][ \A t \in Tx :
             tx[t].pc = "index"
             => /\ tx'[t].client.StatusCode = tx[t].client.StatusCode
                /\ tx[t].saved[1].file \in DOMAIN files'
                /\ files'[tx[t].saved[1].file] = files[tx[t].saved[1].file] ]_vars

====
